---- MODULE Spec2Model ----
(***************************************************************************)
(* A model of the reconciliation engine of asana-analytics-hub:            *)
(*   - the completed_tasks table, the staging tables and the MERGE of      *)
(*     asana_reporter/bigquery.py (upsert_tasks_via_merge,                 *)
(*     backfill_minutes_columns) and the view v_unique_tasks (ensure_views)*)
(*   - the retry wrappers of asana_reporter/asana.py and asana_io.py.      *)
(***************************************************************************)
EXTENDS Integers, Sequences, FiniteSets, TLC

VARIABLES
    \* the store
    table,      \* completed_tasks: the set of its rows
    staging,    \* the staging tables that exist: staging table id -> its rows
    clock,      \* time.time() in whole seconds
    ts,         \* how many times a call has read datetime.now for inserted_at
    \* sequential use of the store, one whole operation per step
    prev,       \* completed_tasks as it was when the last operation began
    tasks,      \* the non-empty batch the last upsert_tasks_via_merge call merged
    op,         \* the last operation: "init", "upsert", "rerun", "backfill", "idle"
    \* calls of upsert_tasks_via_merge taken one API request at a time
    calls,      \* how many calls have begun
    pc,         \* pc[p]: where invocation p stands
    arg,        \* arg[p]: its `tasks` argument
    sid,        \* sid[p]: its staging_table_id
    now_ts,     \* now_ts[p]: its inserted_at, NULL until read
    atCall,     \* atCall[p]: completed_tasks as it was when the call began
    failedAt,   \* failedAt[p]: the step at which the call raised, or "none"
    faulty,     \* faulty[p]: the call met a fault of the service
    \* the retry wrappers
    wrapper,    \* the wrapper that is running, or "none"
    attempt,    \* its counter: `attempt` of asana.py, `attempts` of asana_io.py
    made,       \* how many times it has invoked the wrapped call
    slept,      \* how many times it has slept
    status,     \* the HTTP status of the last response, 0 before any
    headers,    \* the Retry-After header of the last response
    sleep_sec,  \* the length of its last sleep in tenths of a second, 0 before any
    result,     \* "idle", "running", "returned" or "raised"
    only503,    \* every response so far was a 503
    \* a run of fetch_asana_tasks_to_bq
    runs,       \* how many runs have begun
    run_pc,     \* "idle", "loop", "done" (returned 200) or "failed" (returned 500)
    request,    \* the request's full_sync, backfill_subtasks, include_incomplete_subtasks
    modified_since, \* the watermark the run fetches from, NULL for none
    idx,        \* the position of the loop in `projects`
    all_tasks,  \* the records collected so far
    sent,       \* sent[p]: the opts sent to list project p, NULL before
    listed,     \* listed[p]: the parents the listing of p returned
    outcome,    \* outcome[p]: "none", "ok" (the call returned) or "error" (it raised)
    fetched, \* fetched[p]: what the call for project p gave in this run
    summary,    \* what the run reported: the summary sent and the status returned
    \* a call of _parse_custom_fields
    custom_fields, \* the custom fields of the task at hand
    parser,     \* which _parse_custom_fields was applied, "none" before
    parsed,     \* what it returned
    \* a sweep of the open tasks into open_tasks_snapshot
    open_remote, \* the workspace: the members of each project, the subtasks, who is completed
    sweeps,     \* how many sweeps have begun; the sweep's snapshot_date
    sweep_pc,   \* "idle", "loop", "appended" or "failed"
    sweep_idx,  \* the position of the sweep in `projects`
    open_rows,  \* the rows collected so far by the sweep
    snapshot,   \* open_tasks_snapshot: the sequence of the rows appended
    \* runs of asana_reporter/main.fetch_asana_tasks_to_bq, the batched entry point
    leg_remote, \* leg_remote[p]: the completed tasks project p lists
    leg_store,  \* completed_tasks as these runs fill it
    leg_clock,  \* the time of day
    leg_run,    \* the last run: its input, what it skipped, what it would have stored unskipped
    \* the workspace the runs of fetch_asana_tasks_to_bq read
    source,     \* source[gid]: whether the task is completed, and its modified_at
    writer      \* the store write the runs reach: "insert_tasks" or "upsert_tasks_via_merge"

storeVars == <<table, staging, clock, ts>>
seqVars == <<prev, tasks, op>>
stepVars == <<calls, pc, arg, sid, now_ts, atCall, failedAt, faulty>>
retryVars == <<wrapper, attempt, made, slept, status, headers, sleep_sec, result, only503>>
runVars == <<runs, run_pc, request, modified_since, idx, all_tasks, sent, listed,
             outcome, fetched, summary>>
normVars == <<custom_fields, parser, parsed>>
sweepVars == <<open_remote, sweeps, sweep_pc, sweep_idx, open_rows, snapshot>>
legacyVars == <<leg_remote, leg_store, leg_clock, leg_run>>
sourceVars == <<source, writer>>
vars == <<storeVars, seqVars, stepVars, retryVars, runVars, normVars, sweepVars, legacyVars,
          sourceVars>>

(***************************************************************************)
(* SQL values.  A column value is NULL or Some(v).                         *)
(***************************************************************************)
NULL == <<>>
Some(v) == <<v>>
COALESCE(a, b) == IF a # NULL THEN a ELSE b

(***************************************************************************)
(* Bounds.                                                                 *)
(***************************************************************************)
MaxModified == 2    \* modified_at of a fetched task ranges over 1..MaxModified
MaxBatch == 2       \* a batch holds at most MaxBatch records
MaxCalls == 2       \* at most MaxCalls non-empty upsert calls in a behaviour

TaskIds == {"T1", "T2"}
Details == {"bare", "full"}

(***************************************************************************)
(* The records the two fetchers build for a task.  A "full" task has an    *)
(* assignee, a due date and both time fields; a "bare" one has none.       *)
(* Columns that the MERGE and the view treat exactly like assignee_name    *)
(* (task_name, project_id, project_name, created_at, is_subtask) or like   *)
(* project_gid (assignee_gid) are not repeated.                            *)
(***************************************************************************)
Hours(minutes) == IF minutes = NULL THEN NULL ELSE Some(minutes[1] \div 60)

FormatTaskIO(id, detail, completed_at, modified_at) ==
    LET est == IF detail = "full" THEN Some(30) ELSE NULL
        raw == IF detail = "full" THEN Some(60) ELSE NULL
    IN  [ task_id           |-> id,
          parent_task_id    |-> NULL,
          assignee_name     |-> IF detail = "full" THEN Some("a") ELSE NULL,
          project_gid       |-> Some("P"),
          completed_at      |-> completed_at,
          due_on            |-> IF detail = "full" THEN Some(1) ELSE NULL,
          modified_at       |-> modified_at,
          estimated_time    |-> est,
          actual_time       |-> Hours(raw),
          actual_time_raw   |-> raw,
          estimated_minutes |-> est,
          actual_minutes    |-> raw ]

\* asana.py builds no project_gid, estimated_minutes or actual_minutes key:
\* insert_rows_json leaves those columns NULL.
FormatTaskLegacy(id, detail, completed_at, modified_at) ==
    [ FormatTaskIO(id, detail, completed_at, modified_at)
        EXCEPT !.project_gid = NULL,
               !.estimated_minutes = NULL,
               !.actual_minutes = NULL ]

Timestamps == {NULL} \cup {Some(m) : m \in 1..MaxModified}
Completions == {NULL, Some(1)}

\* What a call may be handed: a record of the current fetcher for a task
\* of either detail, or a record the older fetcher built for a full task.
TaskRecords ==
    { FormatTaskIO(id, d, c, m) :
        id \in TaskIds, d \in Details, c \in Completions, m \in Timestamps }
    \cup
    { FormatTaskLegacy(id, "full", c, m) :
        id \in TaskIds, c \in Completions, m \in Timestamps }

Batches == UNION { [1..n -> TaskRecords] : n \in 0..MaxBatch }

(***************************************************************************)
(* upsert_tasks_via_merge                                                  *)
(***************************************************************************)
\* datetime.now at the k-th call: later than every modified_at of the source.
InsertedAt(k) == Some(MaxModified + k)

\* Step 2: every record gets the call's inserted_at and goes to staging.
StageRows(batch, stamp) ==
    { batch[i] @@ [inserted_at |-> stamp] : i \in DOMAIN batch }

\* ORDER BY COALESCE(modified_at, inserted_at) DESC, inserted_at DESC
DedupKey(r) == <<COALESCE(r.modified_at, r.inserted_at)[1], r.inserted_at[1]>>

KeyLeq(a, b) == a[1] < b[1] \/ (a[1] = b[1] /\ a[2] <= b[2])

\* A different ranking: ORDER BY modified_at DESC alone, NULLs last.
RankOneByModifiedOnly(S, id) ==
    LET m(r) == IF r.modified_at = NULL THEN 0 ELSE r.modified_at[1]
    IN  { r \in S : r.task_id = id /\ \A q \in S : q.task_id = id => m(q) <= m(r) }

\* The rows ROW_NUMBER() may number 1 in the partition of task id `id`:
\* those no other row of the partition sorts strictly before.
RankOne(S, id) ==
    { r \in S : /\ r.task_id = id
                      /\ \A q \in S :
                            q.task_id = id => KeyLeq(DedupKey(q), DedupKey(r)) }

\* A different USING clause: SELECT * FROM staging, without the QUALIFY.
DedupNone(S) == { S }

\* QUALIFY ROW_NUMBER() ... = 1: one row per task id; which one among rows
\* that tie on the ORDER BY key is the engine's choice.
DedupChoices(S) ==
    LET ids == { r.task_id : r \in S }
    IN  { { f[id] : id \in ids } :
            f \in { g \in [ids -> S] : \A id \in ids : g[id] \in RankOne(S, id) } }

\* A different UPDATE: every column, the COALESCEd ones too, is set from S.
MergeRowOverwrite(t, s) == s

\* WHEN MATCHED THEN UPDATE SET ...
MergeRow(t, s) ==
    [ task_id           |-> t.task_id,
      parent_task_id    |-> s.parent_task_id,
      assignee_name     |-> s.assignee_name,
      project_gid       |-> COALESCE(s.project_gid, t.project_gid),
      completed_at      |-> s.completed_at,
      due_on            |-> s.due_on,
      modified_at       |-> s.modified_at,
      estimated_time    |-> s.estimated_time,
      actual_time       |-> s.actual_time,
      actual_time_raw   |-> s.actual_time_raw,
      estimated_minutes |-> COALESCE(s.estimated_minutes, t.estimated_minutes),
      actual_minutes    |-> COALESCE(s.actual_minutes, t.actual_minutes),
      inserted_at       |-> s.inserted_at ]

\* MERGE T USING S ON T.task_id = S.task_id: S holds one row per task id.
MergeInto(T, S) ==
    LET matched(t) == { s \in S : s.task_id = t.task_id }
    IN  { IF matched(t) = {} THEN t ELSE MergeRow(t, CHOOSE s \in matched(t) : TRUE) :
            t \in T }
        \cup { s \in S : \A t \in T : t.task_id # s.task_id }

(***************************************************************************)
(* backfill_minutes_columns: three UPDATE statements, one after the other. *)
(***************************************************************************)
BackfillEstimated(T) ==
    { IF r.estimated_minutes = NULL /\ r.estimated_time # NULL
        THEN [r EXCEPT !.estimated_minutes = r.estimated_time] ELSE r : r \in T }

BackfillActualRaw(T) ==
    { IF r.actual_minutes = NULL /\ r.actual_time_raw # NULL
        THEN [r EXCEPT !.actual_minutes = r.actual_time_raw] ELSE r : r \in T }

BackfillActualHours(T) ==
    { IF r.actual_minutes = NULL /\ r.actual_time # NULL
        THEN [r EXCEPT !.actual_minutes = Some(r.actual_time[1] * 60)] ELSE r : r \in T }

BackfillMinutes(T) == BackfillActualHours(BackfillActualRaw(BackfillEstimated(T)))

(***************************************************************************)
(* v_unique_tasks                                                          *)
(***************************************************************************)
ViewColumns ==
    { "task_id", "parent_task_id", "assignee_name", "project_gid",
      "completed_at", "modified_at", "inserted_at", "estimated_time", "actual_time", "actual_time_raw",
      "estimated_minutes", "actual_minutes" }

ViewRow(r) == [ c \in ViewColumns |-> r[c] ]

\* ORDER BY modified_at DESC, inserted_at DESC: in descending order BigQuery
\* puts NULL last, below every timestamp.
ViewKey(r) == << IF r.modified_at = NULL THEN 0 ELSE r.modified_at[1], r.inserted_at[1] >>

\* A different view: no WHERE completed_at IS NOT NULL.
RankedUnfiltered(T) == T

\* WHERE completed_at IS NOT NULL comes before the ranking.
Ranked(T) == { r \in T : r.completed_at # NULL }

ViewRankOne(T, id) ==
    { r \in Ranked(T) : /\ r.task_id = id
                        /\ \A q \in Ranked(T) :
                              q.task_id = id => KeyLeq(ViewKey(q), ViewKey(r)) }

\* The results the view may return: rn = 1 of every partition.
Views(T) ==
    LET ids == { r.task_id : r \in Ranked(T) }
    IN  { { ViewRow(f[id]) : id \in ids } :
            f \in { g \in [ids -> Ranked(T)] : \A id \in ids : g[id] \in ViewRankOne(T, id) } }

(***************************************************************************)
(* Initial state: ensure_table_exists has created an empty table, no call  *)
(* is running.                                                             *)
(***************************************************************************)
Procs == {"A", "B"}

\* get_all_projects: the workspace's projects, in the order of the listing.
projects == <<"PA", "PB", "PC">>

ProjectIds == { projects[i] : i \in DOMAIN projects }

\* Nothing reported yet.
NoSummary == [sent |-> FALSE, tasks_processed |-> 0, errors |-> 0, status |-> 0]

\* No call of get_completed_tasks_for_project for the project yet.
NotFetched == [raised |-> FALSE, records |-> <<>>, status |-> 0, made |-> 0]

\* A workspace without projects' tasks.
NoRemote == [members |-> <<>>, subtasks |-> <<>>, completed |-> <<>>]

\* No project lists a completed task.
legacy_projects == <<"PA", "PB">>
LegacyProjectIds == { legacy_projects[i] : i \in DOMAIN legacy_projects }
NoLegacyRemote == [p \in LegacyProjectIds |-> {}]

\* No run of the batched entry point yet.
NoLegacyRun ==
    [ n |-> 0, incremental |-> FALSE, last_update |-> NULL, skipped |-> {},
      status |-> "none", before |-> {}, unskipped |-> {}, remote |-> NoLegacyRemote ]

\* A workspace whose tasks are all open.
SourceGids == {"T1", "T2", "S1"}
NoSource == [g \in SourceGids |-> [completed |-> FALSE, modified_at |-> 1]]

NoRequest ==
    [full_sync |-> FALSE, backfill_subtasks |-> FALSE, include_incomplete_subtasks |-> FALSE]

InitProgram ==
    /\ table = {}
    /\ staging = << >>
    /\ clock = 0
    /\ ts = 0
    /\ prev = {}
    /\ tasks = <<>>
    /\ op = "init"
    /\ calls = 0
    /\ pc = [p \in Procs |-> "idle"]
    /\ arg = [p \in Procs |-> <<>>]
    /\ sid = [p \in Procs |-> 0]
    /\ now_ts = [p \in Procs |-> NULL]
    /\ atCall = [p \in Procs |-> {}]
    /\ failedAt = [p \in Procs |-> "none"]
    /\ faulty = [p \in Procs |-> FALSE]
    /\ wrapper = "none"
    /\ attempt = 0
    /\ made = 0
    /\ slept = 0
    /\ status = 0
    /\ headers = [kind |-> "absent"]
    /\ sleep_sec = 0
    /\ result = "idle"
    /\ only503 = TRUE
    /\ runs = 0
    /\ run_pc = "idle"
    /\ request = NoRequest
    /\ modified_since = NULL
    /\ idx = 0
    /\ all_tasks = <<>>
    /\ sent = [p \in ProjectIds |-> NULL]
    /\ listed = [p \in ProjectIds |-> <<>>]
    /\ outcome = [p \in ProjectIds |-> "none"]
    /\ fetched = [p \in ProjectIds |-> NotFetched]
    /\ summary = NoSummary
    /\ sweeps = 0
    /\ sweep_pc = "idle"
    /\ sweep_idx = 0
    /\ open_rows = <<>>
    /\ snapshot = <<>>
    /\ leg_store = {}
    /\ leg_clock = 1
    /\ leg_run = NoLegacyRun

\* No custom fields parsed yet.
NotParsed ==
    [estimated_time |-> NULL, actual_time |-> NULL, actual_time_raw |-> NULL, raised |-> FALSE]

Init ==
    /\ InitProgram
    /\ source = NoSource
    /\ writer = "insert_tasks"
    /\ leg_remote = NoLegacyRemote
    /\ open_remote = NoRemote
    /\ custom_fields = <<>>
    /\ parser = "none"
    /\ parsed = NotParsed

(***************************************************************************)
(* Sequential, fault-free use of the store: one whole operation per step.  *)
(* The staging table a call creates is gone when it returns.               *)
(***************************************************************************)
\* A whole call of upsert_tasks_via_merge(client, batch) that meets no
\* fault.  An empty batch returns at once ("No new tasks to upsert").
Merge(batch, kind) ==
    IF batch = <<>>
      THEN UNCHANGED vars
      ELSE /\ prev' = table
           /\ tasks' = batch
           /\ op' = kind
           /\ ts' = ts + 1
           /\ \E S \in DedupChoices(StageRows(batch, InsertedAt(ts + 1))) :
                 table' = MergeInto(table, S)
           /\ UNCHANGED <<staging, clock, stepVars, retryVars, runVars, normVars, sweepVars, legacyVars, sourceVars>>

\* Between operations: nothing is running and the caller holds no batch.
BetweenCalls == op \in {"init", "idle"}

Upsert ==
    /\ BetweenCalls
    /\ \/ Merge(<<>>, "upsert")
       \/ /\ ts < MaxCalls
          /\ \E batch \in Batches \ {<<>>} : Merge(batch, "upsert")

\* The caller runs the call again with the identical batch.
Rerun ==
    /\ op = "upsert"
    /\ ts < MaxCalls
    /\ Merge(tasks, "rerun")

\* The caller is done with the batch.
Done ==
    /\ op \in {"upsert", "rerun", "backfill"}
    /\ op' = "idle"
    /\ prev' = table
    /\ tasks' = <<>>
    /\ UNCHANGED <<storeVars, stepVars, retryVars, runVars, normVars, sweepVars, legacyVars, sourceVars>>

Backfill ==
    /\ BetweenCalls
    /\ prev' = table
    /\ table' = BackfillMinutes(table)
    /\ op' = "backfill"
    /\ tasks' = <<>>
    /\ UNCHANGED <<staging, clock, ts, stepVars, retryVars, runVars, normVars, sweepVars, legacyVars, sourceVars>>

Next == Upsert \/ Rerun \/ Done \/ Backfill

Spec == Init /\ [][Next]_vars

(***************************************************************************)
(* upsert_tasks_via_merge taken one request to BigQuery at a time.         *)
(* pc[p] names the request invocation p makes next: "create", "insert",    *)
(* "merge", "delete"; then "returned" or "raised"; "idle" between calls.   *)
(***************************************************************************)
MaxClock == 1
MaxStepCalls == 2

\* The batches the step-wise calls are given.
StepRecords ==
    { FormatTaskIO(id, "full", Some(1), Some(m)) : id \in TaskIds, m \in 1..MaxModified }

StepBatches == UNION { [1..n -> StepRecords] : n \in 1..MaxBatch }

\* f"completed_tasks_staging_{int(time.time())}"
StagingTableId(t) == t

DropTable(tables, id) == [k \in DOMAIN tables \ {id} |-> tables[k]]

\* time.time() moves on to the next second.
Tick ==
    /\ clock < MaxClock
    /\ clock' = clock + 1
    /\ UNCHANGED <<table, staging, ts, seqVars, stepVars, retryVars, runVars, normVars, sweepVars, legacyVars, sourceVars>>

\* The call begins: `if not tasks: return`, then the staging table's name.
Call(p, batch) ==
    /\ pc[p] = "idle"
    /\ IF batch = <<>>
         THEN UNCHANGED vars
         ELSE /\ calls < MaxStepCalls
              /\ calls' = calls + 1
              /\ pc' = [pc EXCEPT ![p] = "create"]
              /\ arg' = [arg EXCEPT ![p] = batch]
              /\ sid' = [sid EXCEPT ![p] = StagingTableId(clock)]
              /\ atCall' = [atCall EXCEPT ![p] = table]
              /\ UNCHANGED <<now_ts, failedAt, faulty, storeVars, seqVars, retryVars, runVars, normVars, sweepVars, legacyVars, sourceVars>>

\* 1) client.create_table(staging_table): Conflict if the name is taken.
CreateStaging(p) ==
    /\ pc[p] = "create"
    /\ IF sid[p] \in DOMAIN staging
         THEN /\ pc' = [pc EXCEPT ![p] = "raised"]
              /\ failedAt' = [failedAt EXCEPT ![p] = "create"]
              /\ UNCHANGED staging
         ELSE /\ staging' = (sid[p] :> {}) @@ staging
              /\ pc' = [pc EXCEPT ![p] = "insert"]
              /\ UNCHANGED failedAt
    /\ UNCHANGED <<table, clock, ts, calls, arg, sid, now_ts, atCall, faulty,
                   seqVars, retryVars, runVars, normVars, sweepVars, legacyVars, sourceVars>>

\* A different step 2: the rows are streamed into completed_tasks itself.
InsertIntoTarget(p) ==
    /\ pc[p] = "insert"
    /\ ts' = ts + 1
    /\ now_ts' = [now_ts EXCEPT ![p] = InsertedAt(ts + 1)]
    /\ table' = table \cup StageRows(arg[p], InsertedAt(ts + 1))
    /\ pc' = [pc EXCEPT ![p] = "merge"]
    /\ UNCHANGED <<staging, clock, calls, arg, sid, atCall, failedAt, faulty,
                   seqVars, retryVars, runVars, normVars, sweepVars, legacyVars, sourceVars>>

\* 2) now_ts, rows_to_insert, client.insert_rows_json(table=staging_ref, ...)
InsertStaging(p) ==
    /\ pc[p] = "insert"
    /\ ts' = ts + 1
    /\ now_ts' = [now_ts EXCEPT ![p] = InsertedAt(ts + 1)]
    /\ IF sid[p] \in DOMAIN staging
         THEN /\ staging' = [staging EXCEPT
                    ![sid[p]] = @ \cup StageRows(arg[p], InsertedAt(ts + 1))]
              /\ pc' = [pc EXCEPT ![p] = "merge"]
              /\ UNCHANGED failedAt
         ELSE /\ pc' = [pc EXCEPT ![p] = "raised"]
              /\ failedAt' = [failedAt EXCEPT ![p] = "insert"]
              /\ UNCHANGED staging
    /\ UNCHANGED <<table, clock, calls, arg, sid, atCall, faulty, seqVars, retryVars, runVars, normVars, sweepVars, legacyVars, sourceVars>>

\* 3) client.query(merge_sql).result(): one DML statement, applied as a
\* whole; it reads whatever the staging table of that name holds.
MergeStep(p) ==
    /\ pc[p] = "merge"
    /\ IF sid[p] \in DOMAIN staging
         THEN /\ \E S \in DedupChoices(staging[sid[p]]) : table' = MergeInto(table, S)
              /\ pc' = [pc EXCEPT ![p] = "delete"]
              /\ UNCHANGED failedAt
         ELSE /\ pc' = [pc EXCEPT ![p] = "raised"]
              /\ failedAt' = [failedAt EXCEPT ![p] = "merge"]
              /\ UNCHANGED table
    /\ UNCHANGED <<staging, clock, ts, calls, arg, sid, now_ts, atCall, faulty,
                   seqVars, retryVars, runVars, normVars, sweepVars, legacyVars, sourceVars>>

\* client.delete_table(staging_ref, not_found_ok=True)
DeleteStaging(p) ==
    /\ pc[p] = "delete"
    /\ staging' = DropTable(staging, sid[p])
    /\ pc' = [pc EXCEPT ![p] = "returned"]
    /\ UNCHANGED <<table, clock, ts, calls, arg, sid, now_ts, atCall, failedAt,
                   faulty, seqVars, retryVars, runVars, normVars, sweepVars, legacyVars, sourceVars>>

\* BigQuery rejects the request the call makes next and the client raises;
\* nothing in the function catches it.  A failed create_table creates
\* nothing, a failed query job changes nothing, a failed delete_table
\* deletes nothing; a failed insert_rows_json may have written some rows.
Fault(p) ==
    /\ pc[p] \in {"create", "insert", "merge", "delete"}
    /\ pc' = [pc EXCEPT ![p] = "raised"]
    /\ failedAt' = [failedAt EXCEPT ![p] = pc[p]]
    /\ faulty' = [faulty EXCEPT ![p] = TRUE]
    /\ IF pc[p] = "insert" /\ sid[p] \in DOMAIN staging
         THEN /\ ts' = ts + 1
              /\ now_ts' = [now_ts EXCEPT ![p] = InsertedAt(ts + 1)]
              /\ \E R \in SUBSET StageRows(arg[p], InsertedAt(ts + 1)) :
                    staging' = [staging EXCEPT ![sid[p]] = @ \cup R]
         ELSE UNCHANGED <<ts, now_ts, staging>>
    /\ UNCHANGED <<table, clock, calls, arg, sid, atCall, seqVars, retryVars, runVars, normVars, sweepVars, legacyVars, sourceVars>>

\* The caller has seen the call return or raise.
Finish(p) ==
    /\ pc[p] \in {"returned", "raised"}
    /\ pc' = [pc EXCEPT ![p] = "idle"]
    /\ arg' = [arg EXCEPT ![p] = <<>>]
    /\ sid' = [sid EXCEPT ![p] = 0]
    /\ now_ts' = [now_ts EXCEPT ![p] = NULL]
    /\ atCall' = [atCall EXCEPT ![p] = {}]
    /\ failedAt' = [failedAt EXCEPT ![p] = "none"]
    /\ faulty' = [faulty EXCEPT ![p] = FALSE]
    /\ UNCHANGED <<calls, storeVars, seqVars, retryVars, runVars, normVars, sweepVars, legacyVars, sourceVars>>

\* One caller, calls one after the other, any request may fail.
NextSteps ==
    \/ \E batch \in StepBatches \cup {<<>>} : Call("A", batch)
    \/ CreateStaging("A")
    \/ InsertStaging("A")
    \/ MergeStep("A")
    \/ DeleteStaging("A")
    \/ Fault("A")
    \/ Finish("A")
    \/ Tick

SpecSteps == Init /\ [][NextSteps]_vars

\* The same caller when whatever is due gets done: a call that has begun goes
\* on to its next request unless that request fails, the scheduler calls
\* again, and time passes.
FairSteps ==
    /\ WF_vars(\E batch \in StepBatches : Call("A", batch))
    /\ WF_vars(CreateStaging("A"))
    /\ WF_vars(InsertStaging("A"))
    /\ WF_vars(MergeStep("A"))
    /\ WF_vars(DeleteStaging("A"))
    /\ WF_vars(Finish("A"))
    /\ WF_vars(Tick)

SpecStepsFair == Init /\ [][NextSteps]_vars /\ FairSteps

\* Two callers whose calls may overlap; BigQuery answers every request.
NextConc ==
    \/ \E p \in Procs : \E batch \in StepBatches \cup {<<>>} : Call(p, batch)
    \/ \E p \in Procs : CreateStaging(p)
    \/ \E p \in Procs : InsertStaging(p)
    \/ \E p \in Procs : MergeStep(p)
    \/ \E p \in Procs : DeleteStaging(p)
    \/ \E p \in Procs : Finish(p)
    \/ Tick

SpecConc == Init /\ [][NextConc]_vars

(***************************************************************************)
(* The retry wrappers of the fetch layer: asana._with_retry and the        *)
(* _with_retry closures of asana_io.get_completed_tasks_for_project and    *)
(* asana_io.get_open_tasks_for_project.  Durations are in tenths of a      *)
(* second.                                                                 *)
(***************************************************************************)
Wrappers == {"asana", "io_completed", "io_open"}

OK == 200
Statuses == {OK, 400, 403, 404, 429, 500, 502, 503, 504}

\* The Retry-After header of a failed response.
RetryAfterHeaders ==
    { [kind |-> "absent"], [kind |-> "text"] } \cup
    { [kind |-> "int", n |-> n] : n \in {-1, 0, 7, 45} }

\* 0.8 + 0.4 * random.random(), in tenths: sample points of [0.8, 1.2)
Jitters == {8, 10, 11}

max_attempts == 6
base_delay == 10
io_max_retries == 5
io_sleep_cap == 30

RECURSIVE Pow2(_)
Pow2(n) == IF n <= 0 THEN 1 ELSE 2 * Pow2(n - 1)

Min(a, b) == IF a <= b THEN a ELSE b

\* status in (429, 500, 502, 503, 504) / status in (429, 500, 502, 503)
Retryable(w) ==
    IF w = "asana" THEN {429, 500, 502, 503, 504} ELSE {429, 500, 502, 503}

\* The counter as the wrapper starts: range(1, max_attempts + 1) / attempts = 0
FirstAttempt(w) == IF w = "asana" THEN 1 ELSE 0

\* A different test: the retries go on past the cap.
GivesUpLate(w, n) == n > max_attempts

\* The test that ends the retries, on the counter after a retryable failure:
\* `attempt == max_attempts` before the sleep in asana.py,
\* `attempts += 1; if attempts > 5` in asana_io.py.
GivesUp(w, n) ==
    IF w = "asana" THEN n = max_attempts ELSE n + 1 > io_max_retries

\* int(headers.get('Retry-After', '0')), None when int() raises
ParseRetryAfter(h) ==
    CASE h.kind = "absent" -> Some(0)
      [] h.kind = "int"    -> Some(h.n)
      [] OTHER             -> NULL

\* sleep_sec of the wrapper, from its counter before the increment
SleepSec(w, n, h, jitter) ==
    IF w = "asana"
      THEN (base_delay * Pow2(n - 1) * jitter) \div 10
      ELSE LET retry_after == ParseRetryAfter(h)
           IN  IF retry_after # NULL /\ retry_after[1] > 0
                 THEN retry_after[1] * 10
                 ELSE Min(io_sleep_cap, Pow2(n)) * 10

\* A caller enters wrapper w.
Begin(w) ==
    /\ result = "idle"
    /\ wrapper' = w
    /\ attempt' = FirstAttempt(w)
    /\ made' = 0
    /\ slept' = 0
    /\ status' = 0
    /\ headers' = [kind |-> "absent"]
    /\ sleep_sec' = 0
    /\ only503' = TRUE
    /\ result' = "running"
    /\ UNCHANGED <<storeVars, seqVars, stepVars, runVars, normVars, sweepVars, legacyVars, sourceVars>>

\* The wrapped call is made and answers with status st; on a failure the
\* except clause runs, to its raise or through its sleep.
Respond(st, h, jitter) ==
    /\ result = "running"
    /\ made' = made + 1
    /\ status' = st
    /\ headers' = h
    /\ only503' = (only503 /\ st = 503)
    /\ IF st = OK
         THEN /\ result' = "returned"
              /\ UNCHANGED <<attempt, slept, sleep_sec>>
         ELSE IF st \notin Retryable(wrapper) \/ GivesUp(wrapper, attempt)
           THEN /\ result' = "raised"
                /\ attempt' = IF wrapper # "asana" /\ st \in Retryable(wrapper)
                                THEN attempt + 1 ELSE attempt
                /\ UNCHANGED <<slept, sleep_sec>>
           ELSE /\ result' = "running"
                /\ sleep_sec' = SleepSec(wrapper, attempt, h, jitter)
                /\ slept' = slept + 1
                /\ attempt' = attempt + 1
    /\ UNCHANGED <<wrapper, storeVars, seqVars, stepVars, runVars, normVars, sweepVars, legacyVars, sourceVars>>

\* The caller has the wrapper's result.
Leave ==
    /\ result \in {"returned", "raised"}
    /\ result' = "idle"
    /\ wrapper' = "none"
    /\ attempt' = 0
    /\ made' = 0
    /\ slept' = 0
    /\ status' = 0
    /\ headers' = [kind |-> "absent"]
    /\ sleep_sec' = 0
    /\ only503' = TRUE
    /\ UNCHANGED <<storeVars, seqVars, stepVars, runVars, normVars, sweepVars, legacyVars, sourceVars>>

NextRetry ==
    \/ \E w \in Wrappers : Begin(w)
    \/ \E st \in Statuses, h \in RetryAfterHeaders, jitter \in Jitters : Respond(st, h, jitter)
    \/ Leave

SpecRetry == Init /\ [][NextRetry]_vars

(***************************************************************************)
(* A run of fetch_asana_tasks_to_bq (src/main.py) over the projects, with  *)
(* get_completed_tasks_for_project as the call of main.py:86-93 takes it   *)
(* (modified_since, force_parent_sweep, completed_since_override,          *)
(* include_incomplete_subtasks): the function of asana_io.py.              *)
(* Time: 0 is 1970-01-01T00:00:00.000Z, 1 is 2023-01-01T00:00:00.000Z, the *)
(* tasks of the source are modified at 1..MaxModified.                     *)
(***************************************************************************)
MaxRuns == 2
MaxSubModified == 1   \* modified_at of a subtask ranges over 1..MaxSubModified

Epoch == 0
DefaultCompletedSince == 1

\* The parents each project lists at the source, and their subtasks.
ProjectTasks(p) ==
    CASE p = "PA" -> <<"T1">>
      [] p = "PB" -> <<"T2">>
      [] OTHER    -> <<>>

SubtasksOf(gid) == IF gid = "T1" THEN <<"S1">> ELSE <<>>

\* A task as the API returns it: completed_at is set exactly when completed.
RawTask(gid, completed, modified) ==
    [ gid |-> gid, completed |-> completed,
      completed_at |-> IF completed THEN Some(1) ELSE NULL,
      modified_at |-> modified ]

RawSubtaskLists(gid) ==
    IF SubtasksOf(gid) = <<>>
      THEN { <<>> }
      ELSE { <<RawTask(SubtasksOf(gid)[1], c, m)>> : c \in BOOLEAN, m \in 1..MaxSubModified }

\* A parent of the listing: num_subtasks, and what get_subtasks_for_task
\* answers for it: its subtasks, or an ApiException (subtasks_ok = FALSE).
RawParents(gid) ==
    { RawTask(gid, c, m) @@ [num_subtasks |-> Len(subs), subtasks |-> subs, subtasks_ok |-> TRUE] :
        c \in BOOLEAN, m \in 1..MaxModified, subs \in RawSubtaskLists(gid) }
    \cup
    { RawTask(gid, c, m) @@ [num_subtasks |-> 1, subtasks |-> <<>>, subtasks_ok |-> FALSE] :
        c \in { b \in {FALSE} : SubtasksOf(gid) # <<>> }, m \in 1..MaxSubModified }

\* What get_tasks_for_project may answer for project p under any window:
\* none or each of its parents.
Listings(p) ==
    IF ProjectTasks(p) = <<>>
      THEN { <<>> }
      ELSE { <<>> } \cup { <<r>> : r \in RawParents(ProjectTasks(p)[1]) }

\* The statuses the API answers to the attempts of one wrapped call.
Always(st) == [k \in 1..(io_max_retries + 1) |-> st]

ResponseSeqs ==
    { Always(OK), Always(404), Always(403), Always(503),
      <<503>> \o Always(OK) }

RECURSIVE WithRetry(_, _, _, _)
WithRetry(w, n, calls_made, seq) ==
    LET st == Head(seq)
    IN  IF st = OK
          THEN [result |-> "returned", made |-> calls_made + 1, status |-> st]
          ELSE IF st \notin Retryable(w) \/ GivesUp(w, n)
            THEN [result |-> "raised", made |-> calls_made + 1, status |-> st]
            ELSE WithRetry(w, n + 1, calls_made + 1, Tail(seq))

\* _get_last_modified_from_bq: MAX(modified_at) of completed_tasks WHERE
\* modified_at IS NOT NULL; None when there is none.
LastModified(T) ==
    LET ms == { r.modified_at[1] : r \in { q \in T : q.modified_at # NULL } }
    IN  IF ms = {} THEN NULL ELSE Some(CHOOSE m \in ms : \A n \in ms : n <= m)

\* main.py:86-93: the arguments of get_completed_tasks_for_project
CallArgs(since, req) ==
    [ modified_since |-> since,
      force_parent_sweep |-> req.backfill_subtasks,
      completed_since_override |->
          IF req.backfill_subtasks \/ req.full_sync THEN Some(Epoch) ELSE NULL,
      include_incomplete_subtasks |-> req.include_incomplete_subtasks ]

\* Different options: the watermark is looked at before the sweep.
FetchOptsWatermarkFirst(args) ==
    IF args.modified_since # NULL
      THEN [ modified_since |-> args.modified_since, completed_since |-> NULL ]
      ELSE IF args.force_parent_sweep
             THEN [ modified_since |-> COALESCE(args.completed_since_override, Some(Epoch)),
                    completed_since |-> NULL ]
             ELSE [ modified_since |-> NULL,
                    completed_since |->
                        COALESCE(args.completed_since_override, Some(DefaultCompletedSince)) ]

\* asana_io.py:134-145: the window options put into opts
FetchOpts(args) ==
    IF args.force_parent_sweep
      THEN [ modified_since  |-> COALESCE(args.completed_since_override, Some(Epoch)),
             completed_since |-> NULL ]
      ELSE IF args.modified_since # NULL
        THEN [ modified_since |-> args.modified_since, completed_since |-> NULL ]
        ELSE [ modified_since  |-> NULL,
               completed_since |->
                   COALESCE(args.completed_since_override, Some(DefaultCompletedSince)) ]

\* asana_io.py:207-226 and :238-257: the records built for a subtask and
\* for a parent (custom fields left aside: none is set).
FormattedSubtask(p, parent, sub) ==
    [ FormatTaskIO(sub.gid, "bare", sub.completed_at, Some(sub.modified_at))
        EXCEPT !.project_gid = Some(p), !.parent_task_id = Some(parent.gid) ]

FormattedTask(p, t) ==
    [ FormatTaskIO(t.gid, "bare", t.completed_at, Some(t.modified_at))
        EXCEPT !.project_gid = Some(p) ]

\* is_completed = completed and completed_at
IsCompleted(t) == t.completed /\ t.completed_at # NULL

\* asana_io.py:187-230: the subtasks of a parent that are taken
SubtaskRecords(p, t, include_incomplete) ==
    LET Taken(sub) == IsCompleted(sub) \/ include_incomplete
        kept == SelectSeq(t.subtasks, Taken)
    IN  IF t.num_subtasks > 0
          THEN [ k \in DOMAIN kept |-> FormattedSubtask(p, t, kept[k]) ]
          ELSE <<>>

\* One turn of the loop over tasks_response: subtasks first, then the
\* parent when it is completed.
RecordsOfParent(p, t, include_incomplete) ==
    SubtaskRecords(p, t, include_incomplete)
        \o (IF IsCompleted(t) THEN <<FormattedTask(p, t)>> ELSE <<>>)

RECURSIVE ProcessedTasks(_, _, _)
ProcessedTasks(p, listing, include_incomplete) ==
    IF listing = <<>>
      THEN <<>>
      ELSE RecordsOfParent(p, Head(listing), include_incomplete)
             \o ProcessedTasks(p, Tail(listing), include_incomplete)

\* _get_subtasks_with_retry() is called outside any try: its ApiException
\* leaves get_completed_tasks_for_project.
SubtaskFetchRaises(listing) ==
    \E k \in DOMAIN listing : listing[k].num_subtasks > 0 /\ ~listing[k].subtasks_ok

\* bigquery.insert_tasks, which main.py:106 calls, is not in bigquery.py.
\* As the Reconciler of the specification: the batch is tagged with a fresh
\* ingestion time, of several rows of one task the one greatest by
\* (modified_at, ingested_at) is kept, and the kept rows are added to the
\* store, whose rows are never changed.
ReconcileRankOne(S, id) ==
    LET key(r) == << IF r.modified_at = NULL THEN 0 ELSE r.modified_at[1], r.inserted_at[1] >>
    IN  { r \in S : /\ r.task_id = id
                    /\ \A q \in S : q.task_id = id => KeyLeq(key(q), key(r)) }

insert_tasks(T, batch, stamp) ==
    LET S   == StageRows(batch, stamp)
        ids == { r.task_id : r \in S }
    IN  { T \cup { f[id] : id \in ids } :
            f \in { g \in [ids -> S] : \A id \in ids : g[id] \in ReconcileRankOne(S, id) } }

\* main.py:112-124: send_run_summary(tasks_processed=len(all_tasks),
\* errors=0) and the response with status 200.
RunSummary(collected) ==
    [ sent |-> TRUE, tasks_processed |-> Len(collected), errors |-> 0, status |-> 200 ]

\* main.py:126-130: the outer handler returns the error with status 500;
\* no summary is sent.
Returned500 == [sent |-> FALSE, tasks_processed |-> 0, errors |-> 0, status |-> 500]

Requests == [ full_sync : BOOLEAN, backfill_subtasks : BOOLEAN,
              include_incomplete_subtasks : BOOLEAN ]

\* The run begins: the request's options, the watermark (None under
\* full_sync, and when the lookup finds nothing or raises), the projects.
\* An error of get_all_projects ends the run with status 500.
StartRun(req) ==
    /\ run_pc = "idle"
    /\ runs < MaxRuns
    /\ runs' = runs + 1
    /\ request' = req
    /\ \E since \in (IF req.full_sync THEN {NULL} ELSE {LastModified(table), NULL}) :
          modified_since' = since
    /\ \/ run_pc' = "loop" /\ idx' = 1
       \/ run_pc' = "failed" /\ idx' = 0
    /\ all_tasks' = <<>>
    /\ sent' = [p \in ProjectIds |-> NULL]
    /\ listed' = [p \in ProjectIds |-> <<>>]
    /\ outcome' = [p \in ProjectIds |-> "none"]
    /\ fetched' = [p \in ProjectIds |-> NotFetched]
    /\ summary' = (IF run_pc' = "failed" THEN Returned500 ELSE NoSummary)
    /\ UNCHANGED <<storeVars, seqVars, stepVars, retryVars, normVars, sweepVars, legacyVars, sourceVars>>

\* get_completed_tasks_for_project() raising the 404 of the listing too.
GetCompletedTasksRaising404(p, include_incomplete, seq, listing) ==
    LET r == WithRetry("io_completed", FirstAttempt("io_completed"), 0, seq)
    IN  IF r.result = "raised"
          THEN [raised |-> TRUE, records |-> <<>>, status |-> r.status, made |-> r.made]
          ELSE IF SubtaskFetchRaises(listing)
                 THEN [raised |-> TRUE, records |-> <<>>, status |-> r.status, made |-> r.made]
                 ELSE [raised |-> FALSE,
                       records |-> ProcessedTasks(p, listing, include_incomplete),
                       status |-> r.status, made |-> r.made]

\* The whole call of get_completed_tasks_for_project(): the listing goes
\* through _with_retry and answers `seq`; a 404 is answered with []; any
\* other ApiException, and the one of a subtask request, is raised; else
\* the records of `listing` are returned.  status is the last status of the
\* listing request, made the number of listing requests.
GetCompletedTasksForProject(p, include_incomplete, seq, listing) ==
    LET r == WithRetry("io_completed", FirstAttempt("io_completed"), 0, seq)
    IN  IF r.result = "raised"
          THEN [raised |-> r.status # 404, records |-> <<>>,
                status |-> r.status, made |-> r.made]
          ELSE IF SubtaskFetchRaises(listing)
                 THEN [raised |-> TRUE, records |-> <<>>, status |-> r.status, made |-> r.made]
                 ELSE [raised |-> FALSE,
                       records |-> ProcessedTasks(p, listing, include_incomplete),
                       status |-> r.status, made |-> r.made]

\* The loop of main.py left by the ApiException of one project.
FetchProjectAborting ==
    /\ run_pc = "loop"
    /\ idx <= Len(projects)
    /\ LET p == projects[idx]
       IN  \E seq \in ResponseSeqs, listing \in Listings(p) :
             LET res == GetCompletedTasksForProject(p,
                           request.include_incomplete_subtasks, seq, listing)
             IN  /\ (res.status # OK => listing = <<>>)
                 /\ sent' = [sent EXCEPT ![p] = FetchOpts(CallArgs(modified_since, request))]
                 /\ fetched' = [fetched EXCEPT ![p] = res]
                 /\ listed' = [listed EXCEPT ![p] = listing]
                 /\ IF res.raised
                      THEN /\ outcome' = [outcome EXCEPT ![p] = "error"]
                           /\ run_pc' = "failed"
                           /\ UNCHANGED <<all_tasks, idx>>
                      ELSE /\ outcome' = [outcome EXCEPT ![p] = "ok"]
                           /\ all_tasks' = all_tasks \o res.records
                           /\ idx' = idx + 1
                           /\ UNCHANGED run_pc
    /\ summary' = (IF run_pc' = "failed" THEN Returned500 ELSE summary)
    /\ UNCHANGED <<runs, request, modified_since, storeVars, seqVars, stepVars, retryVars, normVars, sweepVars, legacyVars, sourceVars>>

\* One turn of the loop of main.py:82-100: the call for projects[idx], its
\* records added to all_tasks; an ApiException is caught and the loop goes
\* on with the next project.
FetchProject ==
    /\ run_pc = "loop"
    /\ idx <= Len(projects)
    /\ LET p == projects[idx]
       IN  \E seq \in ResponseSeqs, listing \in Listings(p) :
             LET res == GetCompletedTasksForProject(p,
                           request.include_incomplete_subtasks, seq, listing)
             IN  /\ (res.status # OK => listing = <<>>)
                 /\ sent' = [sent EXCEPT ![p] = FetchOpts(CallArgs(modified_since, request))]
                 /\ fetched' = [fetched EXCEPT ![p] = res]
                 /\ listed' = [listed EXCEPT ![p] = listing]
                 /\ IF res.raised
                      THEN /\ outcome' = [outcome EXCEPT ![p] = "error"]
                           /\ UNCHANGED all_tasks
                      ELSE /\ outcome' = [outcome EXCEPT ![p] = "ok"]
                           /\ all_tasks' = all_tasks \o res.records
    /\ idx' = idx + 1
    /\ UNCHANGED <<runs, run_pc, request, modified_since, summary, storeVars, seqVars,
                   stepVars, retryVars, normVars, sweepVars, legacyVars, sourceVars>>

\* After the loop: `if all_tasks:` the store write, which may raise (the
\* run then returns 500); then the summary and status 200.
StoreWrite ==
    /\ run_pc = "loop"
    /\ idx > Len(projects)
    /\ IF all_tasks # <<>>
         THEN \/ /\ ts' = ts + 1
                 /\ table' \in insert_tasks(table, all_tasks, InsertedAt(ts + 1))
                 /\ run_pc' = "done"
              \/ /\ run_pc' = "failed"
                 /\ UNCHANGED <<table, ts>>
         ELSE /\ run_pc' = "done"
              /\ UNCHANGED <<table, ts>>
    /\ summary' = (IF run_pc' = "done" THEN RunSummary(all_tasks) ELSE Returned500)
    /\ UNCHANGED <<staging, clock, runs, request, modified_since, idx, all_tasks,
                   sent, listed, outcome, fetched, seqVars, stepVars, retryVars, normVars, sweepVars, legacyVars, sourceVars>>

\* The function has returned.
FinishRun ==
    /\ run_pc \in {"done", "failed"}
    /\ run_pc' = "idle"
    /\ request' = NoRequest
    /\ modified_since' = NULL
    /\ idx' = 0
    /\ all_tasks' = <<>>
    /\ sent' = [p \in ProjectIds |-> NULL]
    /\ listed' = [p \in ProjectIds |-> <<>>]
    /\ outcome' = [p \in ProjectIds |-> "none"]
    /\ fetched' = [p \in ProjectIds |-> NotFetched]
    /\ summary' = NoSummary
    /\ UNCHANGED <<runs, storeVars, seqVars, stepVars, retryVars, normVars, sweepVars, legacyVars, sourceVars>>

NextRun ==
    \/ \E req \in Requests : StartRun(req)
    \/ FetchProject
    \/ StoreWrite
    \/ FinishRun

SpecRun == Init /\ [][NextRun]_vars

(***************************************************************************)
(* Runs of fetch_asana_tasks_to_bq against a workspace that keeps its      *)
(* state between the runs: the listing of a project is what the window of  *)
(* the request lets through.                                               *)
(***************************************************************************)
\* The workspaces the runs begin with: nothing edited yet.
Sources == [SourceGids -> [completed : BOOLEAN, modified_at : {1}]]

\* The parent `gid` as get_tasks_for_project returns it, with what
\* get_subtasks_for_task answers for it (an ApiException when ~ok).
SourceParent(src, gid, ok) ==
    LET subs == SubtasksOf(gid)
    IN  RawTask(gid, src[gid].completed, src[gid].modified_at)
          @@ [ num_subtasks |-> Len(subs),
               subtasks |-> IF ok
                              THEN [ k \in DOMAIN subs |->
                                       RawTask(subs[k], src[subs[k]].completed,
                                               src[subs[k]].modified_at) ]
                              ELSE <<>>,
               subtasks_ok |-> ok ]

\* opts['modified_since'] lets through the tasks modified at or after it,
\* completed or not; opts['completed_since'] the tasks that are not
\* completed and those completed at or after it.
InWindow(t, opts) ==
    IF opts.modified_since # NULL
      THEN t.modified_at >= opts.modified_since[1]
      ELSE \/ opts.completed_since = NULL
           \/ ~t.completed
           \/ t.completed_at[1] >= opts.completed_since[1]

\* What get_tasks_for_project answers for project p under `opts`.
ServerListings(src, p, opts) ==
    IF ProjectTasks(p) = <<>>
      THEN { <<>> }
      ELSE LET gid == ProjectTasks(p)[1]
           IN  IF ~InWindow(RawTask(gid, src[gid].completed, src[gid].modified_at), opts)
                 THEN { <<>> }
                 ELSE { << SourceParent(src, gid, ok) >> :
                          ok \in (IF SubtasksOf(gid) = <<>> THEN {TRUE} ELSE BOOLEAN) }

\* The answers to the listing request: the listing, 404 Not Found, or 403.
SyncResponses == { Always(OK), Always(404), Always(403) }

\* A workspace and a store write are given, nothing has run.
InitSync ==
    /\ InitProgram
    /\ leg_remote = NoLegacyRemote
    /\ open_remote = NoRemote
    /\ custom_fields = <<>>
    /\ parser = "none"
    /\ parsed = NotParsed
    /\ source \in Sources
    /\ writer \in {"insert_tasks", "upsert_tasks_via_merge"}

\* Between two runs a task is edited at the source: it is completed,
\* reopened or changed, and its modified_at advances.
SourceEdit(gid) ==
    /\ run_pc = "idle"
    /\ source[gid].modified_at < MaxModified
    /\ \E c \in BOOLEAN :
          source' = [source EXCEPT ![gid] = [completed |-> c, modified_at |-> MaxModified]]
    /\ UNCHANGED <<writer, storeVars, seqVars, stepVars, retryVars, runVars, normVars,
                   sweepVars, legacyVars>>

\* One turn of the loop of main.py:82-100 on the workspace.
SyncFetchProject ==
    /\ run_pc = "loop"
    /\ idx <= Len(projects)
    /\ LET p == projects[idx]
           opts == FetchOpts(CallArgs(modified_since, request))
       IN  \E seq \in SyncResponses :
             \E listing \in (IF WithRetry("io_completed", FirstAttempt("io_completed"),
                                          0, seq).status = OK
                               THEN ServerListings(source, p, opts) ELSE { <<>> }) :
               LET res == GetCompletedTasksForProject(p,
                             request.include_incomplete_subtasks, seq, listing)
               IN  /\ sent' = [sent EXCEPT ![p] = opts]
                   /\ fetched' = [fetched EXCEPT ![p] = res]
                   /\ listed' = [listed EXCEPT ![p] = listing]
                   /\ IF res.raised
                        THEN /\ outcome' = [outcome EXCEPT ![p] = "error"]
                             /\ UNCHANGED all_tasks
                        ELSE /\ outcome' = [outcome EXCEPT ![p] = "ok"]
                             /\ all_tasks' = all_tasks \o res.records
    /\ idx' = idx + 1
    /\ UNCHANGED <<runs, run_pc, request, modified_since, summary, storeVars, seqVars,
                   stepVars, retryVars, normVars, sweepVars, legacyVars, sourceVars>>

\* After the loop: the store write, bigquery.insert_tasks or
\* upsert_tasks_via_merge, which may raise; then the summary and status 200.
SyncStoreWrite ==
    /\ run_pc = "loop"
    /\ idx > Len(projects)
    /\ IF all_tasks # <<>>
         THEN \/ /\ ts' = ts + 1
                 /\ IF writer = "insert_tasks"
                      THEN table' \in insert_tasks(table, all_tasks, InsertedAt(ts + 1))
                      ELSE \E S \in DedupChoices(StageRows(all_tasks, InsertedAt(ts + 1))) :
                              table' = MergeInto(table, S)
                 /\ run_pc' = "done"
              \/ /\ run_pc' = "failed"
                 /\ UNCHANGED <<table, ts>>
         ELSE /\ run_pc' = "done"
              /\ UNCHANGED <<table, ts>>
    /\ summary' = (IF run_pc' = "done" THEN RunSummary(all_tasks) ELSE Returned500)
    /\ UNCHANGED <<staging, clock, runs, request, modified_since, idx, all_tasks,
                   sent, listed, outcome, fetched, seqVars, stepVars, retryVars, normVars,
                   sweepVars, legacyVars, sourceVars>>

NextSync ==
    \/ \E req \in Requests : StartRun(req)
    \/ SyncFetchProject
    \/ SyncStoreWrite
    \/ FinishRun
    \/ \E gid \in SourceGids : SourceEdit(gid)

SpecSync == InitSync /\ [][NextSync]_vars

(***************************************************************************
_parse_custom_fields: the three parsers of the repository, applied to the
custom fields of one task.  A string is the sequence of its characters, a
character outside ASCII is written by its code point ("U+5206"); a number
is a fraction [n, d] with d > 0.
***************************************************************************)
MaxFields == 3      \* a task has at most MaxFields custom fields

Rat(n, d) == [n |-> n, d |-> d]

RInt(k) == Rat(k, 1)

REq(a, b) == a.n * b.d = b.n * a.d

RLess(a, b) == a.n * b.d < b.n * a.d

RLeq(a, b) == a.n * b.d <= b.n * a.d

RMul(a, b) == Rat(a.n * b.n, a.d * b.d)

\* a / b for b # 0
RDiv(a, b) == IF b.n > 0 THEN Rat(a.n * b.d, a.d * b.n) ELSE Rat(-(a.n * b.d), a.d * (-b.n))

RNeg(a) == Rat(-a.n, a.d)

\* Lowest terms, so that equal numbers are equal values.
RECURSIVE Gcd(_, _)
Gcd(a, b) == IF b = 0 THEN a ELSE Gcd(b, a % b)

Abs(k) == IF k < 0 THEN -k ELSE k

Reduced(a) == LET g == Gcd(Abs(a.n), a.d) IN Rat(a.n \div g, a.d \div g)

Digits == <<"0", "1", "2", "3", "4", "5", "6", "7", "8", "9">>

IsDigit(c) == \E k \in DOMAIN Digits : Digits[k] = c

DigitVal(c) == (CHOOSE k \in DOMAIN Digits : Digits[k] = c) - 1

UpperCase == <<"A", "B", "C", "D", "E", "F", "G", "H", "I", "J", "K", "L", "M",
               "N", "O", "P", "Q", "R", "S", "T", "U", "V", "W", "X", "Y", "Z">>

LowerCase == <<"a", "b", "c", "d", "e", "f", "g", "h", "i", "j", "k", "l", "m",
               "n", "o", "p", "q", "r", "s", "t", "u", "v", "w", "x", "y", "z">>

\* str.lower()
Lower(s) ==
    [ i \in DOMAIN s |->
        IF \E k \in DOMAIN UpperCase : UpperCase[k] = s[i]
          THEN LowerCase[CHOOSE k \in DOMAIN UpperCase : UpperCase[k] = s[i]]
          ELSE s[i] ]

\* sub in s
Contains(s, sub) ==
    \E i \in 1..(Len(s) - Len(sub) + 1) : SubSeq(s, i, i + Len(sub) - 1) = sub

\* str.strip() of blanks
RECURSIVE Strip(_)
Strip(s) ==
    IF s = <<>> THEN s
    ELSE IF Head(s) = " " THEN Strip(Tail(s))
    ELSE IF s[Len(s)] = " " THEN Strip(SubSeq(s, 1, Len(s) - 1))
    ELSE s

\* The last index of the run of digits of s that starts at i (i - 1 when
\* s[i] is no digit).
RECURSIVE DigitsEnd(_, _)
DigitsEnd(s, i) ==
    IF i <= Len(s) /\ IsDigit(s[i]) THEN DigitsEnd(s, i + 1) ELSE i - 1

\* The integer written by the digits s[i..j]; 0 when j < i.
RECURSIVE DigitsValue(_, _, _)
DigitsValue(s, i, j) ==
    IF j < i THEN 0 ELSE 10 * DigitsValue(s, i, j - 1) + DigitVal(s[j])

RECURSIVE Pow10(_)
Pow10(k) == IF k = 0 THEN 1 ELSE 10 * Pow10(k - 1)

\* s[j + 1] is a point followed by a digit
HasFraction(s, j) == j + 2 <= Len(s) /\ s[j + 1] = "." /\ IsDigit(s[j + 2])

\* The number whose integer digits are s[b..j] (none when j < b), with the
\* fraction that follows when there is one; and where it ends.
NumberAt(s, b, j) ==
    IF HasFraction(s, j)
      THEN LET k == DigitsEnd(s, j + 2)
           IN  [ value |-> Rat(DigitsValue(s, b, j) * Pow10(k - j - 1)
                                  + DigitsValue(s, j + 2, k), Pow10(k - j - 1)),
                 end |-> k ]
      ELSE [ value |-> RInt(DigitsValue(s, b, j)), end |-> j ]

\* re.search(r"([0-9]+(?:\.[0-9]+)?)", s) of asana.py:97, as float
FirstNumber(s) ==
    LET starts == { i \in DOMAIN s : IsDigit(s[i]) }
    IN  IF starts = {} THEN NULL
        ELSE LET i == CHOOSE i \in starts : \A q \in starts : i <= q
             IN  Some(Reduced(NumberAt(s, i, DigitsEnd(s, i)).value))

\* [-+]?[0-9]*\.?[0-9]+ can match at i: after an optional sign, a digit, or
\* a point and a digit.
SignedStart(s, i) ==
    LET b == IF s[i] \in {"-", "+"} THEN i + 1 ELSE i
    IN  /\ b <= Len(s)
        /\ IsDigit(s[b]) \/ HasFraction(s, b - 1)

SignedAt(s, i) ==
    LET b == IF s[i] \in {"-", "+"} THEN i + 1 ELSE i
        m == NumberAt(s, b, DigitsEnd(s, b))
    IN  [ value |-> IF s[i] = "-" THEN RNeg(m.value) ELSE m.value, end |-> m.end ]

\* re.search(r"[-+]?[0-9]*\.?[0-9]+", text) of asana_io.py:56, as float
FirstSignedNumber(s) ==
    LET starts == { i \in DOMAIN s : SignedStart(s, i) }
    IN  IF starts = {} THEN NULL
        ELSE LET i == CHOOSE i \in starts : \A q \in starts : i <= q
             IN  Some(Reduced(SignedAt(s, i).value))

\* float(s) of a string without exponent: the whole of s is a signed number
\* (a point may end it); NULL for ValueError.
FloatOf(s) ==
    IF s = <<>> \/ ~SignedStart(s, 1) THEN NULL
    ELSE LET m == SignedAt(s, 1)
         IN  IF m.end = Len(s) \/ (m.end = Len(s) - 1 /\ s[Len(s)] = "." /\ ~HasFraction(s, m.end))
               THEN Some(Reduced(m.value))
               ELSE NULL

\* a or b, for values that are None or a string: None and "" are false
Or(a, b) == IF a # NULL /\ a[1] # <<>> THEN a ELSE b

\* The call did not return: an exception left _parse_custom_fields.
Raised ==
    [estimated_time |-> NULL, actual_time |-> NULL, actual_time_raw |-> NULL, raised |-> TRUE]

\* field.get('name', '').lower() of asana.py:64-65 and asana_io.py:70: an
\* AttributeError when the field is no dict or its name is None; a dict
\* without a name gives ''.
GetNameRaises(fields) ==
    \E k \in DOMAIN fields : fields[k].shape \in {"null_name", "not_dict"}

\* The unit markers looked for in a text.
HourMarker == <<"h">>

HoursMarker == <<"U+6642", "U+9593">>

MinuteMarker == <<"U+5206">>

\* A different reading: the text's number whatever its unit.
parse_numeric_ignoring_units(field) ==
    IF field.number_value # NULL
      THEN field.number_value
      ELSE LET text == Or(field.text_value, field.display_value)
           IN  IF text = NULL \/ text[1] = <<>> THEN NULL ELSE FirstSignedNumber(text[1])

\* asana_io.py:46-67, parse_numeric_from_field: number_value first, else the
\* first number of text_value or display_value, times 60 when the text
\* holds "h" or the hours marker.
parse_numeric_from_field(field) ==
    IF field.number_value # NULL
      THEN field.number_value
      ELSE LET text == Or(field.text_value, field.display_value)
           IN  IF text = NULL \/ text[1] = <<>>
                 THEN NULL
                 ELSE LET m == FirstSignedNumber(text[1])
                      IN  IF m = NULL THEN NULL
                          ELSE IF Contains(Lower(text[1]), HourMarker)
                                    \/ Contains(text[1], HoursMarker)
                                 THEN Some(Reduced(RMul(m[1], RInt(60))))
                                 ELSE m

\* asana_io.py:73 and :80, the keywords looked for in the lowered name
EstimatedKeywords ==
    { <<"e", "s", "t", "i", "m", "a", "t", "e", "d", " ", "t", "i", "m", "e">>,
      <<"e", "s", "t", "i", "m", "a", "t", "e", "d", "_", "t", "i", "m", "e">>,
      <<"e", "s", "t", "i", "m", "a", "t", "e">>,
      <<"U+898B", "U+7A4D">>,
      <<"U+898B", "U+7A4D", "U+3082", "U+308A">> }

ActualKeywords ==
    { <<"a", "c", "t", "u", "a", "l", " ", "t", "i", "m", "e">>,
      <<"a", "c", "t", "u", "a", "l", "_", "t", "i", "m", "e">>,
      <<"s", "p", "e", "n", "t", " ", "t", "i", "m", "e">>,
      <<"t", "r", "a", "c", "k", "e", "d", " ", "t", "i", "m", "e">>,
      <<"U+5B9F", "U+7E3E">>,
      <<"U+5B9F", "U+50CD">>,
      <<"U+5DE5", "U+6570">>,
      <<"U+7A3C", "U+50CD">> }

AnyIn(keywords, name) == \E kw \in keywords : Contains(name, kw)

\* A different loop: a category keeps the value of its first field.
RECURSIVE ParseLoopFirstWins(_, _, _)
ParseLoopFirstWins(fields, est, act) ==
    IF fields = <<>>
      THEN [est |-> est, act |-> act]
      ELSE LET field == Head(fields)
               name_lower == Lower(field.name)
               p == parse_numeric_from_field(field)
           IN  IF AnyIn(EstimatedKeywords, name_lower) /\ p # NULL
                 THEN ParseLoopFirstWins(Tail(fields), IF est = NULL THEN p ELSE est, act)
                 ELSE IF AnyIn(ActualKeywords, name_lower) /\ p # NULL
                        THEN ParseLoopFirstWins(Tail(fields), est, IF act = NULL THEN p ELSE act)
                        ELSE ParseLoopFirstWins(Tail(fields), est, act)

\* asana_io.py:69-84, the loop: a field that parses sets the value of its
\* category, a later one overwrites it.
RECURSIVE ParseLoopIO(_, _, _)
ParseLoopIO(fields, est, act) ==
    IF fields = <<>>
      THEN [est |-> est, act |-> act]
      ELSE LET field == Head(fields)
               name_lower == Lower(field.name)
               p == parse_numeric_from_field(field)
           IN  IF AnyIn(EstimatedKeywords, name_lower) /\ p # NULL
                 THEN ParseLoopIO(Tail(fields), p, act)
                 ELSE IF AnyIn(ActualKeywords, name_lower) /\ p # NULL
                        THEN ParseLoopIO(Tail(fields), est, p)
                        ELSE ParseLoopIO(Tail(fields), est, act)

\* minutes / 60
HoursOf(minutes) ==
    IF minutes = NULL THEN NULL ELSE Some(Reduced(RDiv(minutes[1], RInt(60))))

\* asana_io.py:37-92, _parse_custom_fields
ParseCustomFieldsIO(fields) ==
    LET r == ParseLoopIO(fields, NULL, NULL)
    IN  IF GetNameRaises(fields) THEN Raised
        ELSE [ estimated_time |-> r.est, actual_time |-> HoursOf(r.act),
               actual_time_raw |-> r.act, raised |-> FALSE ]

\* asana.py:85-87, the names of an estimate
EstimatedNames ==
    { <<"e", "s", "t", "i", "m", "a", "t", "e", "d", " ", "t", "i", "m", "e">>,
      <<"e", "s", "t", "i", "m", "a", "t", "e", "d", "_", "t", "i", "m", "e">>,
      <<"U+898B", "U+7A4D", "U+6642", "U+9593">>,
      <<"U+898B", "U+7A4D", "U+3082", "U+308A", "U+6642", "U+9593">>,
      <<"e", "s", "t", "i", "m", "a", "t", "e">>,
      <<"U+4E88", "U+5B9A", "U+6642", "U+9593">> }

IsEstimatedName(field_name) ==
    \/ field_name \in EstimatedNames
    \/ Contains(field_name, <<"U+4E88", "U+5B9A">>) /\ Contains(field_name, HoursMarker)
    \/ Contains(field_name, <<"e", "s", "t", "i", "m", "a", "t", "e">>) /\ Contains(field_name, <<"t", "i", "m", "e">>)

ActualRawNames ==
    { <<"a", "c", "t", "u", "a", "l", "_", "t", "i", "m", "e", "_", "r", "a", "w">>,
      <<"a", "c", "t", "u", "a", "l", " ", "t", "i", "m", "e", " ", "r", "a", "w">> }

ActualHoursNames ==
    { <<"a", "c", "t", "u", "a", "l", " ", "t", "i", "m", "e">>,
      <<"a", "c", "t", "u", "a", "l", "_", "t", "i", "m", "e">>,
      <<"U+5B9F", "U+7E3E", "U+6642", "U+9593">> }

RateNames ==
    { <<"U+6642", "U+9593", "U+9054", "U+6210", "U+7387">>,
      <<"a", "c", "h", "i", "e", "v", "e", "m", "e", "n", "t", "_", "r", "a", "t", "e">> }

IsRateName(field_name) == field_name \in RateNames \/ Contains(field_name, <<"U+9054", "U+6210", "U+7387">>)

\* text_value or display_value or enum_name
Candidate(field) == Or(Or(field.text_value, field.display_value), field.enum_name)

\* asana.py:89-106: the estimate of a field, `est` when it gives none
EstimateOf(field, est) ==
    IF field.number_value # NULL
      THEN field.number_value
      ELSE LET candidate == Candidate(field)
           IN  IF candidate = NULL \/ candidate[1] = <<>>
                 THEN est
                 ELSE LET t == Strip(candidate[1])
                          m == FirstNumber(t)
                      IN  IF m = NULL THEN est
                          ELSE IF Contains(t, MinuteMarker) THEN m
                          ELSE IF Contains(Lower(t), HourMarker) \/ Contains(t, HoursMarker)
                                 THEN Some(Reduced(RMul(m[1], RInt(60))))
                                 ELSE m

\* str.rstrip('%')
RECURSIVE RStripPercent(_)
RStripPercent(t) ==
    IF t # <<>> /\ t[Len(t)] = "%" THEN RStripPercent(SubSeq(t, 1, Len(t) - 1)) ELSE t

\* asana.py:123-135: the rate of a field, `rate` when it gives none
RateOf(field, rate) ==
    IF field.number_value # NULL
      THEN field.number_value
      ELSE LET candidate == Candidate(field)
           IN  IF candidate = NULL \/ candidate[1] = <<>>
                 THEN rate
                 ELSE LET text_val == Strip(candidate[1])
                          f == IF text_val # <<>> /\ text_val[Len(text_val)] = "%"
                                 THEN FloatOf(Strip(RStripPercent(text_val)))
                                 ELSE FloatOf(text_val)
                      IN  IF f = NULL THEN rate
                          ELSE IF text_val[Len(text_val)] = "%"
                                 THEN Some(Reduced(RDiv(f[1], RInt(100))))
                                 ELSE f

\* asana.py:63-137, the loop
RECURSIVE ParseLoopLegacy(_, _, _, _)
ParseLoopLegacy(fields, est, act, rate) ==
    IF fields = <<>>
      THEN [est |-> est, act |-> act, rate |-> rate]
      ELSE LET field == Head(fields)
               field_name == Lower(field.name)
               rest == Tail(fields)
           IN  IF IsEstimatedName(field_name)
                 THEN ParseLoopLegacy(rest, EstimateOf(field, est), act, rate)
               ELSE IF field_name \in ActualRawNames
                 THEN ParseLoopLegacy(rest, est,
                        IF field.number_value # NULL THEN field.number_value ELSE act, rate)
               ELSE IF field_name \in ActualHoursNames
                 THEN ParseLoopLegacy(rest, est,
                        IF field.number_value # NULL
                          THEN Some(Reduced(RMul(field.number_value[1], RInt(60))))
                          ELSE act, rate)
               ELSE IF IsRateName(field_name)
                 THEN ParseLoopLegacy(rest, est, act, RateOf(field, rate))
               ELSE ParseLoopLegacy(rest, est, act, rate)

\* asana.py:140-155: actual_time_raw from the rate, when there is a rate
\* and an estimate and no actual value
RateFallback(est, act, achievement_rate) ==
    IF achievement_rate # NULL /\ est # NULL /\ act = NULL
      THEN LET r == achievement_rate[1]
               rate == IF RLess(RInt(10), r) /\ RLeq(r, RInt(1000))
                         THEN RDiv(r, RInt(100)) ELSE r
           IN  IF RLess(RInt(0), rate) THEN Some(Reduced(RDiv(est[1], rate))) ELSE act
      ELSE act

\* asana.py:56-172, _parse_custom_fields
ParseCustomFieldsLegacy(fields) ==
    LET r == ParseLoopLegacy(fields, NULL, NULL, NULL)
        raw == RateFallback(r.est, r.act, r.rate)
    IN  IF GetNameRaises(fields) THEN Raised
        ELSE [ estimated_time |-> r.est, actual_time |-> HoursOf(raw),
               actual_time_raw |-> raw, raised |-> FALSE ]

\* src/src/get_completed_tasks.py:39-64, the loop of get_completed_tasks:
\* exact names, number_value only, the rate applied where it is met.
RECURSIVE ParseLoopScript(_, _, _, _)
ParseLoopScript(fields, est, raw, has_actual_time_raw) ==
    IF fields = <<>>
      THEN [est |-> est, raw |-> raw]
      ELSE LET field == Head(fields)
               rest == Tail(fields)
               nv == field.number_value
           IN  IF field.name = <<"E", "s", "t", "i", "m", "a", "t", "e", "d", " ", "t", "i", "m", "e">> /\ nv # NULL
                 THEN ParseLoopScript(rest, nv, raw, has_actual_time_raw)
               ELSE IF field.name = <<"a", "c", "t", "u", "a", "l", "_", "t", "i", "m", "e", "_", "r", "a", "w">> /\ nv # NULL
                 THEN ParseLoopScript(rest, est, nv, TRUE)
               ELSE IF field.name = <<"U+6642", "U+9593", "U+9054", "U+6210", "U+7387">> /\ nv # NULL /\ ~has_actual_time_raw
                 THEN ParseLoopScript(rest, est,
                        IF est # NULL /\ RLess(RInt(0), nv[1])
                          THEN Some(Reduced(RMul(est[1], nv[1])))
                          ELSE raw,
                        has_actual_time_raw)
               ELSE ParseLoopScript(rest, est, raw, has_actual_time_raw)

ParseCustomFieldsScript(fields) ==
    LET r == ParseLoopScript(fields, NULL, NULL, FALSE)
    IN  IF \E k \in DOMAIN fields : fields[k].shape \in {"no_name", "not_dict"}
          THEN Raised
          ELSE [ estimated_time |-> r.est, actual_time |-> HoursOf(r.raw),
                 actual_time_raw |-> r.raw, raised |-> FALSE ]

\* A custom field as the API returns it.  shape is "dict" for a dict with a
\* name that is a string, "null_name" for a dict whose name is None,
\* "no_name" for a dict without the key, "not_dict" for anything else.
NumField(name, n) ==
    [ name |-> name, number_value |-> Some(n), text_value |-> NULL,
      display_value |-> NULL, enum_name |-> NULL, shape |-> "dict" ]

TextField(name, t) ==
    [ name |-> name, number_value |-> NULL, text_value |-> Some(t),
      display_value |-> NULL, enum_name |-> NULL, shape |-> "dict" ]

DisplayField(name, t) ==
    [ name |-> name, number_value |-> NULL, text_value |-> NULL,
      display_value |-> Some(t), enum_name |-> NULL, shape |-> "dict" ]

EnumField(name, t) ==
    [ name |-> name, number_value |-> NULL, text_value |-> NULL,
      display_value |-> NULL, enum_name |-> Some(t), shape |-> "dict" ]

\* The custom fields a task is given here: estimates, actual values, rates
\* and fields that are none of these, with payloads of every kind.
Fields ==
    { NumField(<<"E", "s", "t", "i", "m", "a", "t", "e", "d", " ", "t", "i", "m", "e">>, RInt(90)),
      NumField(<<"E", "s", "t", "i", "m", "a", "t", "e", "d", " ", "t", "i", "m", "e">>, RInt(120)),
      TextField(<<"U+898B", "U+7A4D", "U+6642", "U+9593">>, <<"2", "h">>),
      TextField(<<"E", "s", "t", "i", "m", "a", "t", "e", "d", " ", "t", "i", "m", "e">>, <<"3", "0", "U+5206">>),
      DisplayField(<<"e", "s", "t", "i", "m", "a", "t", "e">>, <<"0", ".", "5", "h">>),
      TextField(<<"E", "s", "t", "i", "m", "a", "t", "e", "d", " ", "t", "i", "m", "e">>, <<"9", "0">>),
      EnumField(<<"E", "s", "t", "i", "m", "a", "t", "e", "d", " ", "t", "i", "m", "e">>, <<"2", "h">>),
      TextField(<<"U+4E88", "U+5B9A", "U+6642", "U+9593">>, <<"2", "U+6642", "U+9593">>),
      TextField(<<"E", "s", "t", "i", "m", "a", "t", "e", "d", " ", "t", "i", "m", "e">>, <<"x">>),
      TextField(<<"U+5B9F", "U+7E3E", "U+6642", "U+9593">>, <<"2", "h">>),
      NumField(<<"a", "c", "t", "u", "a", "l", "_", "t", "i", "m", "e", "_", "r", "a", "w">>, RInt(45)),
      NumField(<<"A", "c", "t", "u", "a", "l", " ", "t", "i", "m", "e">>, RInt(2)),
      EnumField(<<"U+5B9F", "U+7E3E", "U+6642", "U+9593">>, <<"2", "h">>),
      NumField(<<"U+6642", "U+9593", "U+9054", "U+6210", "U+7387">>, Rat(3, 2)),
      NumField(<<"U+6642", "U+9593", "U+9054", "U+6210", "U+7387">>, RInt(75)),
      NumField(<<"U+6642", "U+9593", "U+9054", "U+6210", "U+7387">>, RInt(0)),
      NumField(<<"U+6642", "U+9593", "U+9054", "U+6210", "U+7387">>, RInt(-1)),
      NumField(<<"U+6642", "U+9593", "U+9054", "U+6210", "U+7387">>, RInt(1200)),
      TextField(<<"U+6642", "U+9593", "U+9054", "U+6210", "U+7387">>, <<"1", "5", "0", "%">>),
      NumField(<<"P", "r", "i", "o", "r", "i", "t", "y">>, RInt(5)) }

RECURSIVE FieldListsOf(_)
FieldListsOf(k) ==
    IF k = 0 THEN { <<>> }
    ELSE LET shorter == FieldListsOf(k - 1)
         IN  shorter \cup { Append(l, f) : l \in { q \in shorter : Len(q) = k - 1 }, f \in Fields }

FieldLists == FieldListsOf(MaxFields)

\* A task with its custom fields, before any parser has seen them.
InitNormalize ==
    /\ InitProgram
    /\ source = NoSource
    /\ writer = "insert_tasks"
    /\ leg_remote = NoLegacyRemote
    /\ open_remote = NoRemote
    /\ custom_fields \in FieldLists
    /\ parser = "none"
    /\ parsed = NotParsed

\* asana_io._parse_custom_fields(custom_fields)
ParseIO ==
    /\ parser = "none"
    /\ parser' = "asana_io"
    /\ parsed' = ParseCustomFieldsIO(custom_fields)
    /\ UNCHANGED <<custom_fields, storeVars, seqVars, stepVars, retryVars, runVars, sweepVars, legacyVars, sourceVars>>

\* asana._parse_custom_fields(custom_fields)
ParseLegacy ==
    /\ parser = "none"
    /\ parser' = "asana"
    /\ parsed' = ParseCustomFieldsLegacy(custom_fields)
    /\ UNCHANGED <<custom_fields, storeVars, seqVars, stepVars, retryVars, runVars, sweepVars, legacyVars, sourceVars>>

\* The loop of get_completed_tasks over the custom fields of one task.
ParseScript ==
    /\ parser = "none"
    /\ parser' = "get_completed_tasks"
    /\ parsed' = ParseCustomFieldsScript(custom_fields)
    /\ UNCHANGED <<custom_fields, storeVars, seqVars, stepVars, retryVars, runVars, sweepVars, legacyVars, sourceVars>>

NextNormalize ==
    \/ ParseIO
    \/ ParseLegacy
    \/ ParseScript

SpecNormalize == InitNormalize /\ [][NextNormalize]_vars

\* Fields that are not what the parsers expect: a payload without a number
\* is in Fields already; here a dict whose name is None, a dict without a
\* name, and a value that is no dict.
MalformedFields ==
    { [ NumField(<<>>, RInt(7)) EXCEPT !.shape = "null_name" ],
      [ NumField(<<>>, RInt(7)) EXCEPT !.shape = "no_name" ],
      [ name |-> <<>>, number_value |-> NULL, text_value |-> NULL,
        display_value |-> NULL, enum_name |-> NULL, shape |-> "not_dict" ] }

MaxMalformedFields == 3     \* a task with malformed fields has at most this many fields

SomeFields ==
    { NumField(<<"E", "s", "t", "i", "m", "a", "t", "e", "d", " ", "t", "i", "m", "e">>, RInt(90)),
      TextField(<<"U+898B", "U+7A4D", "U+6642", "U+9593">>, <<"2", "h">>),
      TextField(<<"E", "s", "t", "i", "m", "a", "t", "e", "d", " ", "t", "i", "m", "e">>, <<"x">>),
      NumField(<<"a", "c", "t", "u", "a", "l", "_", "t", "i", "m", "e", "_", "r", "a", "w">>, RInt(45)),
      NumField(<<"U+6642", "U+9593", "U+9054", "U+6210", "U+7387">>, RInt(75)),
      NumField(<<"P", "r", "i", "o", "r", "i", "t", "y">>, RInt(5)) }

RECURSIVE MalformedListsOf(_)
MalformedListsOf(k) ==
    IF k = 0 THEN { <<>> }
    ELSE LET shorter == MalformedListsOf(k - 1)
         IN  shorter \cup { Append(l, f) : l \in { q \in shorter : Len(q) = k - 1 },
                                           f \in SomeFields \cup MalformedFields }

\* A task some of whose custom fields may be malformed.
InitMalformed ==
    /\ InitProgram
    /\ source = NoSource
    /\ writer = "insert_tasks"
    /\ leg_remote = NoLegacyRemote
    /\ open_remote = NoRemote
    /\ custom_fields \in MalformedListsOf(MaxMalformedFields)
    /\ parser = "none"
    /\ parsed = NotParsed

SpecMalformed == InitMalformed /\ [][NextNormalize]_vars

(***************************************************************************)
(* The sweep of the open tasks: asana_io.get_open_tasks_for_project for    *)
(* every project, then bigquery.insert_open_tasks_snapshot.                *)
(***************************************************************************)
MaxSweeps == 2              \* sweeps taken in one behaviour

sweep_projects == <<"PA", "PB">>
SweepProjectIds == { sweep_projects[i] : i \in DOMAIN sweep_projects }
OpenTaskOrder == <<"T1", "T2", "T3">>
OpenTaskIds == { OpenTaskOrder[i] : i \in DOMAIN OpenTaskOrder }

\* The workspaces swept: every task may be a member of any project, T3 may
\* also be a subtask of T1 and of T2, and every task is open or completed.
OpenRemotes ==
    [ members : [SweepProjectIds -> SUBSET OpenTaskIds],
      subtasks : { [t \in OpenTaskIds |-> IF t = "T3" THEN {} ELSE sub[t]] :
                   sub \in [{"T1", "T2"} -> SUBSET {"T3"}] },
      completed : [OpenTaskIds -> BOOLEAN] ]

\* The members of a set of tasks in the order the API lists them.
InOrder(S) == SelectSeq(OpenTaskOrder, LAMBDA t : t \in S)

\* tasks_api.get_tasks_for_project with completed_since = now: the tasks of
\* the project that are not completed.
OpenListing(remote, p) ==
    InOrder({ t \in remote.members[p] : ~remote.completed[t] })

\* The row of an open parent task.
OpenParentRow(remote, p, t) ==
    [ task_id |-> t, task_name |-> <<t>>, project_gid |-> p,
      completed |-> remote.completed[t], is_overdue |-> FALSE ]

\* The row of an open subtask.
OpenSubtaskRow(remote, p, t) ==
    [ task_id |-> t, task_name |-> <<"[Subtask] ", t>>, project_gid |-> p,
      completed |-> remote.completed[t], is_overdue |-> FALSE ]

\* The rows one task of the listing gives: the task itself when it is not
\* completed, then its subtasks that are not completed; a subtask request
\* that raises gives no subtasks.
OpenRowsOfTask(remote, p, t, failing) ==
    LET own == IF ~remote.completed[t] THEN << OpenParentRow(remote, p, t) >> ELSE <<>>
        subtasks == IF Cardinality(remote.subtasks[t]) > 0 /\ t \notin failing
                    THEN InOrder(remote.subtasks[t]) ELSE <<>>
        open == SelectSeq(subtasks, LAMBDA u : ~remote.completed[u])
    IN  own \o [ i \in 1..Len(open) |-> OpenSubtaskRow(remote, p, open[i]) ]

RECURSIVE OpenRowsOfListing(_, _, _, _)
OpenRowsOfListing(remote, p, listing, failing) ==
    IF listing = <<>> THEN <<>>
    ELSE OpenRowsOfTask(remote, p, Head(listing), failing)
         \o OpenRowsOfListing(remote, p, Tail(listing), failing)

\* get_open_tasks_for_project(api_client, project) when the listing is
\* answered with `st` and the subtask requests of `failing` raise.
get_open_tasks_for_project(remote, p, st, failing) ==
    IF st = 404 THEN [raised |-> FALSE, rows |-> <<>>]
    ELSE IF st # OK THEN [raised |-> TRUE, rows |-> <<>>]
    ELSE [raised |-> FALSE,
          rows |-> OpenRowsOfListing(remote, p, OpenListing(remote, p), failing)]

\* insert_open_tasks_snapshot(client, rows) on the table `snap`: nothing for
\* no rows, an append otherwise, RuntimeError when the insert reports errors.
insert_open_tasks_snapshot(snap, rows, errors) ==
    IF rows = <<>> THEN [raised |-> FALSE, snapshot |-> snap]
    ELSE IF errors THEN [raised |-> TRUE, snapshot |-> snap]
    ELSE [raised |-> FALSE, snapshot |-> snap \o rows]

\* The rows of a sweep carry the date of the sweep.
Dated(rows, date) ==
    [ i \in 1..Len(rows) |->
        [ snapshot_date |-> date, task_id |-> rows[i].task_id,
          task_name |-> rows[i].task_name, project_gid |-> rows[i].project_gid,
          completed |-> rows[i].completed, is_overdue |-> rows[i].is_overdue ] ]

InitSweep ==
    /\ InitProgram
    /\ source = NoSource
    /\ writer = "insert_tasks"
    /\ leg_remote = NoLegacyRemote
    /\ custom_fields = <<>>
    /\ parser = "none"
    /\ parsed = NotParsed
    /\ open_remote \in OpenRemotes

\* A sweep begins.
StartSweep ==
    /\ sweep_pc \in {"idle", "appended", "failed"}
    /\ sweeps < MaxSweeps
    /\ sweeps' = sweeps + 1
    /\ sweep_pc' = "loop"
    /\ sweep_idx' = 0
    /\ open_rows' = <<>>
    /\ UNCHANGED <<open_remote, snapshot, storeVars, seqVars, stepVars, retryVars, runVars,
                   normVars, legacyVars, sourceVars>>

\* The sweep takes the open tasks of its next project.
SweepProject ==
    /\ sweep_pc = "loop"
    /\ sweep_idx < Len(sweep_projects)
    /\ \E st \in {OK, 404, 403}, failing \in SUBSET {"T1", "T2"} :
          LET got == get_open_tasks_for_project(open_remote, sweep_projects[sweep_idx + 1],
                                                st, failing)
          IN  /\ sweep_pc' = IF got.raised THEN "failed" ELSE "loop"
              /\ sweep_idx' = IF got.raised THEN sweep_idx ELSE sweep_idx + 1
              /\ open_rows' = open_rows \o got.rows
    /\ UNCHANGED <<open_remote, sweeps, snapshot, storeVars, seqVars, stepVars, retryVars,
                   runVars, normVars, legacyVars, sourceVars>>

\* The sweep appends what it collected, once.
SweepAppend ==
    /\ sweep_pc = "loop"
    /\ sweep_idx = Len(sweep_projects)
    /\ \E errors \in BOOLEAN :
          LET done == insert_open_tasks_snapshot(snapshot, Dated(open_rows, sweeps), errors)
          IN  /\ sweep_pc' = IF done.raised THEN "failed" ELSE "appended"
              /\ snapshot' = done.snapshot
    /\ UNCHANGED <<open_remote, sweeps, sweep_idx, open_rows, storeVars, seqVars, stepVars,
                   retryVars, runVars, normVars, legacyVars, sourceVars>>

NextSweep ==
    \/ StartSweep
    \/ SweepProject
    \/ SweepAppend

SpecSweep == InitSweep /\ [][NextSweep]_vars

(***************************************************************************)
(* asana_reporter/main.fetch_asana_tasks_to_bq: the batched entry point    *)
(* with its incremental mode and its per-project skip.                     *)
(***************************************************************************)
MaxLegacyClock == 5         \* the time of day runs over 1..MaxLegacyClock

\* The one task of each project.
LegacyTaskOf == [p \in LegacyProjectIds |-> IF p = "PA" THEN "T1" ELSE "T2"]

\* task.get('completed_at') of a listed task: an ISO 8601 string of the
\* instant `at`, or a string datetime.fromisoformat rejects.
CompletedAt(at) == [parseable |-> TRUE, at |-> at]
Unparseable == [parseable |-> FALSE, at |-> 0]

\* _to_dt(s): the instant, None for an empty or unparseable string.
to_dt(s) == IF s.parseable THEN Some(s.at) ELSE NULL

Maximum(S) == CHOOSE m \in S : \A x \in S : x <= m

\* SELECT MAX(inserted_at) FROM completed_tasks: None for the empty table.
LastUpdate(store) ==
    IF store = {} THEN NULL ELSE Some(Maximum({ r.inserted_at : r \in store }))

\* The check on one project: it is skipped when it lists tasks, one of them
\* has a parseable completed_at, and the latest of those is not later than
\* last_update.
LegacySkips(remote, p, incremental, last_update) ==
    /\ incremental /\ last_update # NULL
    /\ remote[p] # {}
    /\ LET completed_times == { to_dt(t.completed_at)[1] :
                                t \in { u \in remote[p] : to_dt(u.completed_at) # NULL } }
       IN  /\ completed_times # {}
           /\ Maximum(completed_times) <= last_update[1]

\* all_tasks after the loop over the projects, as a set: the tasks of the
\* projects that are not skipped.
LegacyCollected(remote, skipped) ==
    UNION { remote[p] : p \in LegacyProjectIds \ skipped }

\* The rows of the batch, stamped with the time of the write.
LegacyInsert(store, collected, stamp) ==
    store \cup { [ task_id |-> t.task_id, project_id |-> t.project_id,
                   completed_at |-> t.completed_at, modified_at |-> t.modified_at,
                   inserted_at |-> stamp ] : t \in collected }

\* v_unique_tasks over the store, without inserted_at: of every task the row
\* of the latest modified_at, the latest inserted_at among those.
LegacyView(store) ==
    { [ task_id |-> r.task_id, project_id |-> r.project_id,
        completed_at |-> r.completed_at, modified_at |-> r.modified_at ] :
      r \in { x \in store : \A y \in store :
                 y.task_id = x.task_id =>
                    KeyLeq(<<y.modified_at, y.inserted_at>>, <<x.modified_at, x.inserted_at>>) } }

\* A run of the entry point on the request {incremental}; the query for
\* last_update may raise, which turns the run into a full one, and a listing
\* may raise, which ends the run with status "error" and nothing stored.
LegacyRun ==
    /\ leg_clock < MaxLegacyClock
    /\ \E incremental \in BOOLEAN, query_raises \in BOOLEAN, fetch_raises \in BOOLEAN :
          LET inc == incremental /\ ~query_raises
              last_update == IF inc THEN LastUpdate(leg_store) ELSE NULL
              skipped == { p \in LegacyProjectIds :
                             LegacySkips(leg_remote, p, inc, last_update) }
              collected == LegacyCollected(leg_remote, skipped)
              everything == LegacyCollected(leg_remote, {})
          IN  /\ leg_store' = IF fetch_raises THEN leg_store
                              ELSE LegacyInsert(leg_store, collected, leg_clock)
              /\ leg_run' = [ n |-> leg_run.n + 1, incremental |-> inc,
                              last_update |-> last_update,
                              skipped |-> IF fetch_raises THEN {} ELSE skipped,
                              status |-> IF fetch_raises THEN "error" ELSE "success",
                              before |-> leg_store,
                              unskipped |-> IF fetch_raises THEN leg_store
                                            ELSE LegacyInsert(leg_store, everything, leg_clock),
                              remote |-> leg_remote ]
    /\ leg_clock' = leg_clock + 1
    /\ UNCHANGED <<leg_remote, storeVars, seqVars, stepVars, retryVars, runVars, normVars,
                   sweepVars, sourceVars>>

\* The task of a project is completed at the source, with a completed_at the
\* source writes well or not.
LegacyComplete(p) ==
    /\ leg_clock < MaxLegacyClock
    /\ leg_remote[p] = {}
    /\ \E c \in {CompletedAt(leg_clock), Unparseable} :
          leg_remote' = [leg_remote EXCEPT ![p] =
                            { [ task_id |-> LegacyTaskOf[p], project_id |-> p,
                                completed_at |-> c, modified_at |-> leg_clock ] }]
    /\ leg_clock' = leg_clock + 1
    /\ UNCHANGED <<leg_store, leg_run, storeVars, seqVars, stepVars, retryVars, runVars,
                   normVars, sweepVars, sourceVars>>

\* A completed task is edited at the source: its modified_at moves.
LegacyModify(p) ==
    /\ leg_clock < MaxLegacyClock
    /\ leg_remote[p] # {}
    /\ leg_remote' = [leg_remote EXCEPT ![p] =
                         { [t EXCEPT !.modified_at = leg_clock] : t \in leg_remote[p] }]
    /\ leg_clock' = leg_clock + 1
    /\ UNCHANGED <<leg_store, leg_run, storeVars, seqVars, stepVars, retryVars, runVars,
                   normVars, sweepVars, sourceVars>>

NextLegacy ==
    \/ LegacyRun
    \/ \E p \in LegacyProjectIds : LegacyComplete(p)
    \/ \E p \in LegacyProjectIds : LegacyModify(p)

SpecLegacy == Init /\ [][NextLegacy]_vars

(***************************************************************************)
(* Notions the claims share.                                               *)
(***************************************************************************)
RowsOf(T, id) == { r \in T : r.task_id = id }

BatchRows(batch, id) == { batch[i] : i \in { j \in DOMAIN batch : batch[j].task_id = id } }

\* The last operation was a call that merged a non-empty batch.
Merged == op \in {"upsert", "rerun"} /\ tasks # <<>>

\* A view without its ingestion timestamp.
WithoutInsertedAt(view) ==
    { [ c \in ViewColumns \ {"inserted_at"} |-> v[c] ] : v \in view }

\* The columns a TaskRecord carries besides its id and ingestion timestamp.
RecordColumns ==
    { "parent_task_id", "assignee_name", "project_gid", "completed_at",
      "due_on", "modified_at", "estimated_time", "actual_time", "actual_time_raw",
      "estimated_minutes", "actual_minutes" }

FallbackColumns == { "project_gid", "estimated_minutes", "actual_minutes" }

(***************************************************************************)
(* C1  Idempotent merge: running the call a second time with the identical *)
(* batch leaves v_unique_tasks with the same rows, inserted_at aside.      *)
(* Stated as the claim states it; the MERGE's choice among tied duplicate  *)
(* rows of a batch breaks it.                                              *)
(***************************************************************************)
C1_IdempotentMerge ==
    op = "rerun" =>
        \A before \in Views(prev), after \in Views(table) :
            WithoutInsertedAt(after) = WithoutInsertedAt(before)

(***************************************************************************)
(* C2  Latest-wins: reconciling only older revisions of a task (smaller    *)
(* modified_at) after a newer one leaves the newer row in v_unique_tasks.  *)
(* Stated as the claim states it; the MERGE overwrites unconditionally.    *)
(***************************************************************************)
C2_LatestWins ==
    Merged =>
        \A id \in TaskIds : \A before \in Views(prev) : \A p \in RowsOf(before, id) :
            ( /\ p.modified_at # NULL
              /\ BatchRows(tasks, id) # {}
              /\ \A s \in BatchRows(tasks, id) :
                    s.modified_at # NULL /\ s.modified_at[1] < p.modified_at[1] )
            => \A after \in Views(table) : \E v \in RowsOf(after, id) :
                    v.modified_at = p.modified_at

(***************************************************************************)
(* C3  Append-only store: a write (upsert_tasks_via_merge,                 *)
(* backfill_minutes_columns) changes or deletes no existing row; it only   *)
(* adds rows.  Stated as the claim states it; both writes update in place. *)
(***************************************************************************)
C3_AppendOnly == prev \subseteq table

C5_WholeMerges(p) ==
    IF now_ts[p] = NULL
      THEN {}
      ELSE { MergeInto(atCall[p], S) : S \in DedupChoices(StageRows(arg[p], now_ts[p])) }

C5_FailureAtomicity ==
    /\ failedAt["A"] \in {"create", "insert", "merge"} => table = atCall["A"]
    /\ pc["A"] # "idle" => (table = atCall["A"] \/ table \in C5_WholeMerges("A"))
    /\ pc["A"] \in {"delete", "returned"} => table \in C5_WholeMerges("A")

\* A call given a batch of two tasks, one of them stored before, has raised
\* at the MERGE statement.
C5_Witness ==
    /\ failedAt["A"] = "merge"
    /\ atCall["A"] # {}
    /\ Cardinality({ arg["A"][i].task_id : i \in DOMAIN arg["A"] }) = 2
    /\ \E i \in DOMAIN arg["A"] : \A t \in atCall["A"] : t # arg["A"][i] @@ [inserted_at |-> t.inserted_at]

(***************************************************************************)
(* C6  Merges are serialized: when two calls of upsert_tasks_via_merge     *)
(* overlap (both began on the same completed_tasks) and both are over,     *)
(* completed_tasks holds, inserted_at aside, what the two merges give when *)
(* run one after the other in some order; and the MERGE of a call reads    *)
(* the rows that call staged and no others.  Stated as the claim states    *)
(* it; two calls begun in the same second break it.                        *)
(***************************************************************************)
C6_Strip(T) == { [c \in RecordColumns |-> r[c]] : r \in T }

C6_OneAfterTheOther(base, first, second) ==
    { C6_Strip(MergeInto(MergeInto(base, S1), S2)) :
        S1 \in DedupChoices(StageRows(first, InsertedAt(1))),
        S2 \in DedupChoices(StageRows(second, InsertedAt(2))) }

C6_MergesSerialized ==
    /\ ( /\ \A p \in Procs : pc[p] \in {"returned", "raised"}
         /\ atCall["A"] = atCall["B"] )
       => C6_Strip(table) \in C6_OneAfterTheOther(atCall["A"], arg["A"], arg["B"])
                               \cup C6_OneAfterTheOther(atCall["A"], arg["B"], arg["A"])
    /\ \A p \in Procs :
          (pc[p] = "merge" /\ sid[p] \in DOMAIN staging)
             => staging[sid[p]] = StageRows(arg[p], now_ts[p])

\* The same for calls whose staging tables have different names.
C6_SerializedUnderDistinctNames ==
    ( /\ \A p \in Procs : pc[p] \in {"returned", "raised"}
      /\ atCall["A"] = atCall["B"]
      /\ sid["A"] # sid["B"] )
       => C6_Strip(table) \in C6_OneAfterTheOther(atCall["A"], arg["A"], arg["B"])
                               \cup C6_OneAfterTheOther(atCall["A"], arg["B"], arg["A"])

(***************************************************************************)
(* C7  Merge field fallback.  For a stored task t and the one batch row s  *)
(* of its id:                                                              *)
(*   as claimed (every field): a NULL field of s keeps t's value;          *)
(*   as the MERGE has it: only project_gid, estimated_minutes and          *)
(*   actual_minutes (and assignee_gid) fall back; every other column takes *)
(*   s's value, NULL included.                                             *)
(***************************************************************************)
\* The stored task rows a batch row met: (t, s, the row after the merge).
C7_Met ==
    { <<t, s, n>> \in prev \X { tasks[i] : i \in DOMAIN tasks } \X table :
        /\ t.task_id = s.task_id
        /\ n.task_id = s.task_id
        /\ Cardinality(BatchRows(tasks, s.task_id)) = 1 }

C7_FallbackEveryField ==
    Merged =>
        \A m \in C7_Met : \A c \in RecordColumns :
            m[2][c] = NULL => m[3][c] = m[1][c]

C7_FallbackOnlyCoalescedColumns ==
    Merged =>
        \A m \in C7_Met : \A c \in RecordColumns :
            IF c \in FallbackColumns /\ m[2][c] = NULL
                THEN m[3][c] = m[1][c]
                ELSE m[3][c] = m[2][c]

\* A batch row without project_gid met a stored row that has one, and a
\* batch row without assignee_name met a stored row that has one.
C7_Witness ==
    /\ Merged
    /\ \E m \in C7_Met :
          /\ m[2].project_gid = NULL /\ m[1].project_gid # NULL
          /\ m[2].actual_minutes = NULL /\ m[1].actual_minutes # NULL
          /\ m[3].project_gid # NULL

(***************************************************************************)
(* C8  Dedup within batch.  When a batch holds several rows of one task    *)
(* id, exactly one row of that id is stored and it carries the values of   *)
(* a batch row that is greatest                                            *)
(*   as claimed: by modified_at (a row without modified_at being lowest,   *)
(*   as in the view's ordering);                                           *)
(*   as the MERGE has it: by COALESCE(modified_at, inserted_at), so that a *)
(*   row without modified_at ranks as modified at ingestion time.          *)
(* The rows that may be kept are the same for every order of the batch.    *)
(***************************************************************************)
C8_ModifiedOrNone(s) == IF s.modified_at = NULL THEN 0 ELSE s.modified_at[1]

C8_ModifiedOrNow(s) == IF s.modified_at = NULL THEN InsertedAt(ts)[1] ELSE s.modified_at[1]

\* The row stored for `id` took its overwritten columns from batch row s.
C8_Carries(id, s) ==
    \E n \in RowsOf(table, id) :
        \A c \in RecordColumns \ FallbackColumns : n[c] = s[c]

Reversed(batch) == [ i \in DOMAIN batch |-> batch[Len(batch) + 1 - i] ]

C9_RetryTermination ==
    /\ made <= max_attempts
    /\ (only503 /\ result = "raised") => made = max_attempts
    /\ (only503 /\ made = max_attempts) => result = "raised"
    /\ (only503 /\ result = "running") => (made < max_attempts /\ slept = made)

\* The closure of get_completed_tasks_for_project has raised after six 503s.
C9_Witness ==
    /\ wrapper = "io_completed"
    /\ only503
    /\ result = "raised"
    /\ made = 6
    /\ slept = 5

(***************************************************************************)
(* C10  Retryable set: in every wrapper a failed call is retried if and    *)
(* only if its status is 429, 500, 502, 503 or 504 (and the cap is not     *)
(* reached); on any other status the wrapper raises, after one attempt     *)
(* and no sleep when it is the first.  Stated as the claim states it; the  *)
(* wrappers of asana_io break it on 504.                                   *)
(***************************************************************************)
C10_RetryableStatuses == {429, 500, 502, 503, 504}

C10_RetryableSet ==
    (made >= 1 /\ status # OK) =>
        IF status \in C10_RetryableStatuses
          THEN made < max_attempts => (result = "running" /\ slept = made)
          ELSE result = "raised" /\ (made = 1 => slept = 0)

\* The same for asana._with_retry alone.
C10_RetryableSetOfAsana == wrapper = "asana" => C10_RetryableSet

(***************************************************************************)
(* C11  Retry-After is honoured: in every wrapper, the sleep after a       *)
(* retryable failure that carries Retry-After: n with n > 0 lasts n        *)
(* seconds; after one without the header, the k-th sleep lasts             *)
(* base delay * 2^(k-1), within the 20% of the jitter.  Stated as the      *)
(* claim states it; asana._with_retry never reads the header.              *)
(***************************************************************************)
C11_JustSlept == result = "running" /\ slept >= 1

C11_Backoff ==
    /\ 8 * Pow2(slept - 1) <= sleep_sec
    /\ sleep_sec <= 12 * Pow2(slept - 1)

C11_RetryAfterHonoured ==
    C11_JustSlept =>
        /\ (headers.kind = "int" /\ headers.n > 0) => sleep_sec = 10 * headers.n
        /\ headers.kind = "absent" => C11_Backoff

\* The same for the two closures of asana_io alone.
C11_RetryAfterHonouredByAsanaIo == wrapper # "asana" => C11_RetryAfterHonoured

\* Without the header every wrapper backs off exponentially.
C11_BackoffWithoutHeader ==
    (C11_JustSlept /\ headers.kind = "absent") => C11_Backoff


(***************************************************************************
C12  404 skips the project only.  When the listing of a project is
answered 404, the listing was requested once (no retry), the call of
get_completed_tasks_for_project returned the empty list instead of
raising, and the run goes on: while projects remain the loop is still
running, and once the loop is over every project after it was requested.
***************************************************************************)
C12_Answered404(k) == k < idx /\ fetched[projects[k]].status = 404

C12_NotFoundSkipsProjectOnly ==
    \A k \in DOMAIN projects :
        (run_pc # "idle" /\ C12_Answered404(k)) =>
            /\ fetched[projects[k]].made = 1
            /\ ~fetched[projects[k]].raised
            /\ fetched[projects[k]].records = <<>>
            /\ outcome[projects[k]] = "ok"
            /\ idx <= Len(projects) => run_pc = "loop"
            /\ idx > Len(projects) =>
                  \A j \in DOMAIN projects : j > k => fetched[projects[j]].made >= 1

C12_Witness ==
    /\ run_pc = "done"
    /\ C12_Answered404(1)
    /\ fetched[projects[2]].records # <<>>
    /\ fetched[projects[3]].made >= 1

(***************************************************************************
C13  Partial-failure isolation.  When the fetch of a project raised (a
non-retryable status, retries exhausted, or a subtask request that
failed), the loop goes on: while projects remain the run is still in its
loop, every later project is requested before the loop ends, the records
of every earlier project are still in all_tasks, and when the run has
returned 200 each of them is a row of the store and, if completed, the
one row LatestView ranks first for its task unless the store holds a
revision of the task with a greater modified_at.
***************************************************************************)
C13_Raised(j) == run_pc # "idle" /\ fetched[projects[j]].raised

C13_Stored(rec) == rec @@ [inserted_at |-> InsertedAt(ts)]

C13_LaterRevision(rec) ==
    \E r \in table : /\ r.task_id = rec.task_id
                     /\ r.completed_at # NULL
                     /\ r.modified_at # NULL
                     /\ r.modified_at[1] > rec.modified_at[1]

C13_InLatestView(rec) ==
    /\ C13_Stored(rec) \in table
    /\ rec.completed_at # NULL =>
          \/ ViewRankOne(table, rec.task_id) = { C13_Stored(rec) }
          \/ C13_LaterRevision(rec)

C14_Sent(p) == run_pc # "idle" /\ fetched[p].made >= 1

C14_ForceSweep(o) == o.modified_since = Some(Epoch) /\ o.completed_since = NULL

C14_Full(o) == o.modified_since = NULL /\ o.completed_since # NULL

C14_Incremental(o) == o.modified_since = modified_since /\ o.completed_since = NULL

C14_WindowPlanning ==
    \A p \in ProjectIds :
        C14_Sent(p) =>
            /\ IF request.backfill_subtasks
                 THEN C14_ForceSweep(sent[p])
                 ELSE IF request.full_sync \/ modified_since = NULL
                        THEN C14_Full(sent[p])
                        ELSE C14_Incremental(sent[p])
            /\ (sent[p].modified_since = NULL) # (sent[p].completed_since = NULL)

\* An incremental run, and a sweep of a store that has a watermark.
C14_Witness ==
    /\ C14_Sent(projects[1])
    /\ ~request.backfill_subtasks /\ ~request.full_sync
    /\ modified_since # NULL
    /\ modified_since # Some(Epoch)
    /\ C14_Incremental(sent[projects[1]])

C14_WitnessSweep ==
    /\ C14_Sent(projects[1])
    /\ request.backfill_subtasks
    /\ modified_since # NULL
    /\ C14_ForceSweep(sent[projects[1]])

(***************************************************************************
C15  An empty store is treated as full_sync.  A run that has no
watermark sends, for every project, the options the same request with
full_sync set would send: the same filter field with the same lower
bound; and a watermark the run has is the greatest modified_at of the
current-revision view.
***************************************************************************)
C15_ViewWatermark(T) ==
    LET R == { r \in Ranked(T) : r.modified_at # NULL }
    IN  IF R = {} THEN NULL
        ELSE Some(CHOOSE m \in { r.modified_at[1] : r \in R } :
                     \A r \in R : r.modified_at[1] <= m)

C15_NoWatermark(p) == C14_Sent(p) /\ ~request.full_sync /\ modified_since = NULL

C15_UnderFullSync == FetchOpts(CallArgs(NULL, [request EXCEPT !.full_sync = TRUE]))

C15_EmptyStoreIsFullSync ==
    /\ \A p \in ProjectIds : C15_NoWatermark(p) => sent[p] = C15_UnderFullSync
    /\ (run_pc = "loop" /\ modified_since # NULL) =>
            modified_since = C15_ViewWatermark(table)

\* What does hold: the filter field is the same; the lower bounds agree
\* exactly under backfill_subtasks.
C15_SameFilterField ==
    \A p \in ProjectIds :
        C15_NoWatermark(p) =>
            /\ (sent[p].modified_since = NULL) = (C15_UnderFullSync.modified_since = NULL)
            /\ (sent[p].completed_since = NULL) = (C15_UnderFullSync.completed_since = NULL)
            /\ request.backfill_subtasks => sent[p] = C15_UnderFullSync

\* The first half alone, and the second half alone.
C15_SameLowerBound ==
    \A p \in ProjectIds : C15_NoWatermark(p) => sent[p] = C15_UnderFullSync

C15_WatermarkOverView ==
    (run_pc = "loop" /\ modified_since # NULL) => modified_since = C15_ViewWatermark(table)

\* The watermark is the greatest modified_at of the table's rows.
C15_WatermarkOverTable ==
    (run_pc = "loop" /\ modified_since # NULL) => modified_since = LastModified(table)

(***************************************************************************
C16  Completed subtask of an open parent.  When a run has returned 200
and the listing of a project held a parent that is not completed with a
completed subtask, the subtask is in LatestView with parent_task_id =
the parent's id, and the parent is neither among the fetched records nor
in LatestView.
***************************************************************************)
C16_Cases ==
    { <<p, k, n>> \in ProjectIds \X (1..1) \X (1..1) :
        /\ run_pc = "done"
        /\ ~fetched[p].raised
        /\ k \in DOMAIN listed[p]
        /\ ~IsCompleted(listed[p][k])
        /\ n \in DOMAIN listed[p][k].subtasks
        /\ IsCompleted(listed[p][k].subtasks[n]) }

C16_SubtaskInLatestView(parent, sub) ==
    /\ ViewRankOne(table, sub.gid) # {}
    /\ \A r \in ViewRankOne(table, sub.gid) : r.parent_task_id = Some(parent.gid)

C16_ParentNotFetched(parent) ==
    \A m \in DOMAIN all_tasks : all_tasks[m].task_id # parent.gid

C16_ParentNotInLatestView(parent) == ViewRankOne(table, parent.gid) = {}

C16_SubtaskOfOpenParent ==
    \A c \in C16_Cases :
        LET parent == listed[c[1]][c[2]]
            sub    == parent.subtasks[c[3]]
        IN  /\ C16_SubtaskInLatestView(parent, sub)
            /\ C16_ParentNotFetched(parent)
            /\ C16_ParentNotInLatestView(parent)

\* What does hold: the subtask is shown under its parent and the parent
\* is not among the fetched records.
C16_SubtaskShownParentNotFetched ==
    \A c \in C16_Cases :
        LET parent == listed[c[1]][c[2]]
            sub    == parent.subtasks[c[3]]
        IN  /\ C16_SubtaskInLatestView(parent, sub)
            /\ C16_ParentNotFetched(parent)

\* The parent is absent from LatestView when no earlier run stored it as
\* completed.
C16_ParentAbsentUnlessStoredBefore ==
    \A c \in C16_Cases :
        LET parent == listed[c[1]][c[2]]
        IN  runs = 1 => C16_ParentNotInLatestView(parent)

(***************************************************************************
C17  Estimated-effort unit rule.  asana._parse_custom_fields and
asana_io._parse_custom_fields alike: when exactly one field of the list is
an estimate by its name and its payload (number_value, else text_value,
else display_value) holds a number, estimated_time is that number times
60 when the text holds an hour marker and no minute marker, and the
number itself when it holds a minute marker and no hour marker, when it
holds no marker, and when the payload is a number_value.
***************************************************************************)
MinMarker == <<"m", "i", "n">>

C17_IsEstimate(field) ==
    IF parser = "asana" THEN IsEstimatedName(Lower(field.name))
                        ELSE AnyIn(EstimatedKeywords, Lower(field.name))

C17_Estimates == { k \in DOMAIN custom_fields : C17_IsEstimate(custom_fields[k]) }

C17_Text(field) == Or(field.text_value, field.display_value)

C17_HasHourMarker(t) == Contains(Lower(t), HourMarker) \/ Contains(t, HoursMarker)

C17_HasMinuteMarker(t) == Contains(t, MinuteMarker) \/ Contains(Lower(t), MinMarker)

\* The field holds a number, and not both kinds of marker.
C17_HasPayload(field) ==
    \/ field.number_value # NULL
    \/ /\ C17_Text(field) # NULL
       /\ FirstNumber(C17_Text(field)[1]) # NULL
       /\ ~(C17_HasHourMarker(C17_Text(field)[1]) /\ C17_HasMinuteMarker(C17_Text(field)[1]))

C17_Minutes(field) ==
    IF field.number_value # NULL
      THEN field.number_value[1]
      ELSE LET t == C17_Text(field)[1]
               m == FirstNumber(t)[1]
           IN  IF C17_HasHourMarker(t) THEN Reduced(RMul(m, RInt(60))) ELSE m

C17_Case ==
    /\ parser \in {"asana", "asana_io"}
    /\ Cardinality(C17_Estimates) = 1
    /\ \A k \in C17_Estimates : C17_HasPayload(custom_fields[k])

C17_EstimatedUnitRule ==
    C17_Case =>
        \A k \in C17_Estimates :
            /\ parsed.estimated_time # NULL
            /\ REq(parsed.estimated_time[1], C17_Minutes(custom_fields[k]))

\* "2h" gives 120 with asana_io, "0.5h" gives 30 with asana.
C17_Witness ==
    /\ C17_Case
    /\ parser = "asana_io"
    /\ \E k \in C17_Estimates :
          /\ custom_fields[k].text_value = Some(<<"2", "h">>)
          /\ parsed.estimated_time = Some(RInt(120))

C17_WitnessLegacy ==
    /\ C17_Case
    /\ parser = "asana"
    /\ \E k \in C17_Estimates :
          /\ custom_fields[k].display_value = Some(<<"0", ".", "5", "h">>)
          /\ parsed.estimated_time = Some(RInt(30))

(***************************************************************************
C18  Actual-effort extraction.  asana._parse_custom_fields and
asana_io._parse_custom_fields alike: the one field U+5B9F U+7E3E U+6642
U+9593 with text_value "2h" gives actual_time_raw = 120; the one field
actual_time_raw with number_value 45 gives 45; and when exactly one field
of the list is an actual-effort field by its name, and its payload
(number_value, else text_value, else display_value, else the enum name)
holds a number, actual_time_raw is that number, times 60 exactly when the
name is one of the hours-denominated names.
***************************************************************************)
C18_IsActual(field) ==
    Lower(field.name) \in ActualRawNames \cup ActualHoursNames

C18_Actuals == { k \in DOMAIN custom_fields : C18_IsActual(custom_fields[k]) }

C18_Payload(field) ==
    IF field.number_value # NULL
      THEN field.number_value
      ELSE LET t == Candidate(field)
           IN  IF t = NULL THEN NULL ELSE FirstNumber(t[1])

C18_Minutes(field) ==
    IF Lower(field.name) \in ActualHoursNames
      THEN Reduced(RMul(C18_Payload(field)[1], RInt(60)))
      ELSE C18_Payload(field)[1]

C18_Parsed == parser \in {"asana", "asana_io"}

C18_Example2h == custom_fields = << TextField(<<"U+5B9F", "U+7E3E", "U+6642", "U+9593">>, <<"2", "h">>) >>

C18_Example45 == custom_fields = << NumField(<<"a", "c", "t", "u", "a", "l", "_", "t", "i", "m", "e", "_", "r", "a", "w">>, RInt(45)) >>

C18_Case ==
    /\ C18_Parsed
    /\ Cardinality(C18_Actuals) = 1
    /\ \A k \in C18_Actuals : C18_Payload(custom_fields[k]) # NULL

C18_Rule ==
    C18_Case =>
        \A k \in C18_Actuals :
            /\ parsed.actual_time_raw # NULL
            /\ REq(parsed.actual_time_raw[1], C18_Minutes(custom_fields[k]))

C18_ActualExtraction ==
    /\ (C18_Parsed /\ C18_Example2h) => parsed.actual_time_raw = Some(RInt(120))
    /\ (C18_Parsed /\ C18_Example45) => parsed.actual_time_raw = Some(RInt(45))
    /\ C18_Rule

\* What does hold.  asana_io gives both examples their values; asana gives
\* the second, and follows the rule for a payload that is a number_value.
C18_ExamplesOfAsanaIo ==
    parser = "asana_io" =>
        /\ C18_Example2h => parsed.actual_time_raw = Some(RInt(120))
        /\ C18_Example45 => parsed.actual_time_raw = Some(RInt(45))

C18_NumberValuesOfAsana ==
    (parser = "asana" /\ C18_Case) =>
        /\ C18_Example45 => parsed.actual_time_raw = Some(RInt(45))
        /\ \A k \in C18_Actuals :
              custom_fields[k].number_value # NULL =>
                  /\ parsed.actual_time_raw # NULL
                  /\ REq(parsed.actual_time_raw[1], C18_Minutes(custom_fields[k]))

\* The three ways the claim fails.
C18_Example2hOfAsana ==
    (parser = "asana" /\ C18_Example2h) => parsed.actual_time_raw = Some(RInt(120))

C18_HoursNamesOfAsanaIo ==
    (parser = "asana_io" /\ C18_Case) =>
        \A k \in C18_Actuals :
            custom_fields[k].number_value # NULL =>
                REq(parsed.actual_time_raw[1], C18_Minutes(custom_fields[k]))

C18_EnumNames ==
    C18_Case =>
        \A k \in C18_Actuals :
            (custom_fields[k].number_value = NULL /\ custom_fields[k].enum_name # NULL) =>
                parsed.actual_time_raw # NULL

(***************************************************************************
C19  Achievement-rate fallback.  asana._parse_custom_fields and the loop
of get_completed_tasks alike: when an estimate is known, no field of the
list is an actual-effort field and exactly one is a rate field, with a
number_value r, then actual_time_raw is estimate / r for 0 < r <= 10 and
estimate / (r / 100) for 10 < r <= 1000; and when the list holds the field
actual_time_raw with a number_value, actual_time_raw is that number
wherever the field stands in the list.
***************************************************************************)
C19_Rates == { k \in DOMAIN custom_fields : IsRateName(Lower(custom_fields[k].name)) }

C19_FallbackCase ==
    /\ parsed.estimated_time # NULL
    /\ C18_Actuals = {}
    /\ Cardinality(C19_Rates) = 1
    /\ \A k \in C19_Rates :
          /\ custom_fields[k].number_value # NULL
          /\ RLess(RInt(0), custom_fields[k].number_value[1])
          /\ RLeq(custom_fields[k].number_value[1], RInt(1000))

C19_Normalized(r) == IF RLeq(r, RInt(10)) THEN r ELSE RDiv(r, RInt(100))

C19_Fallback ==
    C19_FallbackCase =>
        \A k \in C19_Rates :
            /\ parsed.actual_time_raw # NULL
            /\ REq(parsed.actual_time_raw[1],
                   RDiv(parsed.estimated_time[1],
                        C19_Normalized(custom_fields[k].number_value[1])))

C19_RawFields ==
    { k \in DOMAIN custom_fields :
        /\ custom_fields[k].name = <<"a", "c", "t", "u", "a", "l", "_", "t", "i", "m", "e", "_", "r", "a", "w">>
        /\ custom_fields[k].number_value # NULL }

C19_ActualKept ==
    (Cardinality(C18_Actuals) = 1 /\ C19_RawFields # {}) =>
        \A k \in C19_RawFields : parsed.actual_time_raw = custom_fields[k].number_value

C19_RateFallback ==
    parser \in {"asana", "get_completed_tasks"} => C19_Fallback /\ C19_ActualKept

\* What does hold: asana follows the whole rule, and get_completed_tasks
\* keeps the value of the actual_time_raw field.
C19_RateFallbackOfAsana == parser = "asana" => C19_Fallback /\ C19_ActualKept

C19_ActualKeptByScript == parser = "get_completed_tasks" => C19_ActualKept

\* get_completed_tasks computes estimate * r, and only when the estimate
\* comes before the rate.
C19_FallbackOfScript == parser = "get_completed_tasks" => C19_Fallback

\* asana_io has no fallback.
C19_FallbackOfAsanaIo == parser = "asana_io" => C19_Fallback

\* 120 and 1.5 give 80 in asana; 120 and 75 give 160.
C19_Reached80 ==
    /\ parser = "asana" /\ C19_FallbackCase
    /\ parsed.estimated_time = Some(RInt(120))
    /\ \E k \in C19_Rates : custom_fields[k].number_value = Some(Rat(3, 2))
    /\ parsed.actual_time_raw = Some(RInt(80))

C19_Reached160 ==
    /\ parser = "asana" /\ C19_FallbackCase
    /\ parsed.estimated_time = Some(RInt(120))
    /\ \E k \in C19_Rates : custom_fields[k].number_value = Some(RInt(75))
    /\ parsed.actual_time_raw = Some(RInt(160))

(***************************************************************************
C20  No usable actual value means null.  asana._parse_custom_fields and
asana_io._parse_custom_fields alike: when no field of the list is an
actual-effort field and the fallback is unusable (no rate field, or no
estimate, or every rate field holds a number_value that is 0, negative or
above 1000), actual_time_raw is None.
***************************************************************************)
C20_OutOfRange(r) == RLeq(r, RInt(0)) \/ RLess(RInt(1000), r)

C20_AboveRange(r) == RLess(RInt(1000), r)

C20_Unusable(Invalid(_)) ==
    \/ C19_Rates = {}
    \/ parsed.estimated_time = NULL
    \/ \A k \in C19_Rates :
          /\ custom_fields[k].number_value # NULL
          /\ Invalid(custom_fields[k].number_value[1])

C20_NoUsableActualIsNull ==
    (parser \in {"asana", "asana_io"} /\ C18_Actuals = {} /\ C20_Unusable(C20_OutOfRange)) =>
        parsed.actual_time_raw = NULL

\* What does hold: asana_io always, asana with a rate that is 0 or
\* negative, with no rate and with no estimate.
C20_NullOfAsanaIo ==
    (parser = "asana_io" /\ C18_Actuals = {} /\ C20_Unusable(C20_OutOfRange)) =>
        parsed.actual_time_raw = NULL

C20_NotPositive(r) == RLeq(r, RInt(0))

C20_NullOfAsanaBelowRange ==
    (parser = "asana" /\ C18_Actuals = {} /\ C20_Unusable(C20_NotPositive)) =>
        parsed.actual_time_raw = NULL

\* asana uses a rate above 1000 as it is.
C20_NullOfAsanaAboveRange ==
    (parser = "asana" /\ C18_Actuals = {} /\ C20_Unusable(C20_AboveRange)) =>
        parsed.actual_time_raw = NULL

(***************************************************************************
C21  Order independence with first match wins.  asana._parse_custom_fields
and asana_io._parse_custom_fields alike: a permutation of the list that
keeps the fields of each category in their order gives the same result;
and when several fields of the list are estimates, each with a payload
that holds a number, estimated_time is the value of the first of them.
***************************************************************************)
C21_Category(field) ==
    LET n == Lower(field.name)
    IN  IF parser = "asana"
          THEN IF IsEstimatedName(n) THEN "estimated"
               ELSE IF n \in ActualRawNames \cup ActualHoursNames THEN "actual"
               ELSE IF IsRateName(n) THEN "rate"
               ELSE "ignored"
          ELSE IF AnyIn(EstimatedKeywords, n) THEN "estimated"
               ELSE IF AnyIn(ActualKeywords, n) THEN "actual"
               ELSE "ignored"

C21_Parse(fields) ==
    IF parser = "asana" THEN ParseCustomFieldsLegacy(fields)
                        ELSE ParseCustomFieldsIO(fields)

\* The permutations of the positions that keep each category in order.
C21_Shuffles ==
    { f \in Permutations(DOMAIN custom_fields) :
        \A a, b \in DOMAIN custom_fields :
            (a < b /\ C21_Category(custom_fields[f[a]]) = C21_Category(custom_fields[f[b]]))
                => f[a] < f[b] }

C21_Parsed == parser \in {"asana", "asana_io"}

C21_AcrossCategories ==
    C21_Parsed =>
        \A f \in C21_Shuffles :
            C21_Parse([k \in DOMAIN custom_fields |-> custom_fields[f[k]]]) = parsed

C21_SeveralEstimates ==
    /\ C21_Parsed
    /\ Cardinality(C17_Estimates) >= 2
    /\ \A k \in C17_Estimates : C17_HasPayload(custom_fields[k])

C21_First == CHOOSE k \in C17_Estimates : \A q \in C17_Estimates : k <= q

C21_Last == CHOOSE k \in C17_Estimates : \A q \in C17_Estimates : q <= k

C21_FirstMatchWins ==
    C21_SeveralEstimates =>
        /\ parsed.estimated_time # NULL
        /\ REq(parsed.estimated_time[1], C17_Minutes(custom_fields[C21_First]))

C21_OrderIndependence == C21_AcrossCategories /\ C21_FirstMatchWins

\* What does hold: the last field of a category wins.
C21_LastMatchWins ==
    C21_SeveralEstimates =>
        /\ parsed.estimated_time # NULL
        /\ REq(parsed.estimated_time[1], C17_Minutes(custom_fields[C21_Last]))

\* Across categories the order does not matter, and within a category the
\* last field wins.
C21_OrderIndependenceLastWins == C21_AcrossCategories /\ C21_LastMatchWins

\* Two estimates, "0.5h" then "2h", give 120 with asana_io, also when an
\* actual value stands between them.
C21_Witness ==
    /\ C21_SeveralEstimates
    /\ parser = "asana_io"
    /\ Len(custom_fields) = 3
    /\ C21_Category(custom_fields[2]) = "actual"
    /\ parsed.actual_time_raw # NULL
    /\ Cardinality(C21_Shuffles) > 1
    /\ ~REq(C17_Minutes(custom_fields[C21_First]), C17_Minutes(custom_fields[C21_Last]))
    /\ REq(parsed.estimated_time[1], C17_Minutes(custom_fields[C21_Last]))

(***************************************************************************
C22  Malformed fields are skipped.  asana._parse_custom_fields and
asana_io._parse_custom_fields alike: for a field of the list whose payload
holds no number, whose name is missing or None, or which is no dict, the
call raises nothing and returns what it returns for the list without that
field.
***************************************************************************)
C22_NonNumeric(field) ==
    /\ field.shape = "dict"
    /\ field.number_value = NULL
    /\ Candidate(field) # NULL
    /\ FirstNumber(Candidate(field)[1]) = NULL

C22_Without(k) ==
    [ j \in 1..(Len(custom_fields) - 1) |->
        IF j < k THEN custom_fields[j] ELSE custom_fields[j + 1] ]

C22_Skipped(k) ==
    /\ ~parsed.raised
    /\ parsed = C21_Parse(C22_Without(k))

C22_MalformedSkipped ==
    C21_Parsed =>
        \A k \in DOMAIN custom_fields :
            (custom_fields[k].shape # "dict" \/ C22_NonNumeric(custom_fields[k]))
                => C22_Skipped(k)

\* What does hold: a payload without a number and a missing name are
\* skipped.
C22_NonNumericSkipped ==
    C21_Parsed =>
        \A k \in DOMAIN custom_fields :
            ( /\ \A j \in DOMAIN custom_fields :
                    custom_fields[j].shape \in {"dict", "no_name"}
              /\ custom_fields[k].shape = "no_name" \/ C22_NonNumeric(custom_fields[k]) )
                => C22_Skipped(k)

\* A name that is None, and a field that is no dict, raise.
C22_NullNameSkipped ==
    C21_Parsed =>
        \A k \in DOMAIN custom_fields :
            custom_fields[k].shape = "null_name" => ~parsed.raised

C22_NotDictSkipped ==
    C21_Parsed =>
        \A k \in DOMAIN custom_fields :
            custom_fields[k].shape = "not_dict" => ~parsed.raised

(***************************************************************************
C23  Run summary counts failures.  When a run has returned, either it
returned 200 and the summary it sent gives tasks_processed = the number of
records collected and errors = the number of projects whose fetch raised
or was answered 404, or the run failed and the error was returned with
status 500.
***************************************************************************)
C23_FailedProjects == { p \in ProjectIds : fetched[p].raised \/ fetched[p].status = 404 }

C23_Returned == run_pc \in {"done", "failed"}

C23_SummaryCountsFailures ==
    C23_Returned =>
        \/ /\ run_pc = "done"
           /\ summary.sent /\ summary.status = 200
           /\ summary.tasks_processed = Len(all_tasks)
           /\ summary.errors = Cardinality(C23_FailedProjects)
        \/ /\ run_pc = "failed"
           /\ summary.status = 500

\* What does hold: the records are counted, a failed run returns 500, and
\* errors is 0 whatever happened.
C23_RecordsCounted ==
    C23_Returned =>
        \/ /\ run_pc = "done"
           /\ summary.sent /\ summary.status = 200
           /\ summary.tasks_processed = Len(all_tasks)
           /\ summary.errors = 0
        \/ /\ run_pc = "failed"
           /\ summary.status = 500

\* C24: the rows of one sweep over all projects are rows of items that are
\* not completed and hold each task_id at most once, so that the append
\* writes each (snapshot_date, task_id) at most once.
C24_OnlyOpenItems ==
    /\ \A i \in DOMAIN open_rows : ~open_rows[i].completed
    /\ \A i \in DOMAIN snapshot : ~snapshot[i].completed
C24_KeysOnce ==
    /\ \A i, j \in DOMAIN open_rows :
          open_rows[i].task_id = open_rows[j].task_id => i = j
    /\ \A i, j \in DOMAIN snapshot :
          /\ snapshot[i].snapshot_date = snapshot[j].snapshot_date
          /\ snapshot[i].task_id = snapshot[j].task_id
          => i = j
C24_SnapshotSweep == C24_OnlyOpenItems /\ C24_KeysOnce

\* C25: the per-project skip is only an optimization: the view after an
\* incremental run is the view the same run leaves with no project skipped;
\* a skipped project lists no revision newer than the stored one; a project
\* without a parseable completion timestamp is never skipped.
C25_NewerThanStored(p) ==
    \E t \in leg_run.remote[p] :
        \A r \in leg_run.before : r.task_id = t.task_id => r.modified_at < t.modified_at
C25_SkipKeepsView ==
    leg_run.status = "success" => LegacyView(leg_store) = LegacyView(leg_run.unskipped)
C25_SkippedOnlyWhenNothingNewer ==
    \A p \in leg_run.skipped : ~C25_NewerThanStored(p)
C25_UnparseableNeverSkipped ==
    \A p \in leg_run.skipped :
        \E t \in leg_run.remote[p] : t.completed_at.parseable
C25_SkipIsOptimization ==
    /\ C25_SkipKeepsView
    /\ C25_SkippedOnlyWhenNothingNewer
    /\ C25_UnparseableNeverSkipped

\* C26: every staging table upsert_tasks_via_merge creates is eventually
\* removed: by the call itself when it succeeds, by the next attempt after a
\* failed call, so that no staging table outlives the next completed call.
C26_StagingIds == { StagingTableId(t) : t \in 0..MaxClock }
C26_RemovedOnSuccess == pc["A"] = "returned" => sid["A"] \notin DOMAIN staging
C26_EventuallyRemoved ==
    \A id \in C26_StagingIds : (id \in DOMAIN staging) ~> (id \notin DOMAIN staging)
C26_NoneOutlivesNextReconcile ==
    \A id \in C26_StagingIds :
        [](id \in DOMAIN staging => [](pc["A"] = "returned" => id \notin DOMAIN staging))
C26_StagingCleanup == C26_EventuallyRemoved /\ C26_NoneOutlivesNextReconcile
\* The last clause as a property of the state a call returns in: whatever
\* staging table an earlier, failed call left is gone by then.
C26_NoStagingAfterReconcile == pc["A"] = "returned" => DOMAIN staging = {}

\* C27: from a table with at most one row per task_id, any sequence of
\* successful upsert_tasks_via_merge calls, with batches that may repeat
\* task ids within and across batches, leaves at most one row per task_id.
C27_OneRowPerTask(T) == \A r, q \in T : r.task_id = q.task_id => r = q
C27_OnePhysicalRowPerTask == C27_OneRowPerTask(table)
C27_Witness ==
    /\ Merged
    /\ C27_OneRowPerTask(prev)
    /\ \E i, j \in DOMAIN tasks :
          /\ tasks[i].task_id = tasks[j].task_id
          /\ tasks[i] # tasks[j]
          /\ RowsOf(prev, tasks[i].task_id) # {}
          /\ Cardinality(RowsOf(table, tasks[i].task_id)) = 1

\* C28: no update is lost to a failed project: when the fetch of a project
\* failed in a run that stored later modified_at of other projects, a later
\* run that fetches the project without error still stores its completed
\* tasks; every task completed at the source is in the view once its project
\* has been fetched without error.
C28_FetchedWithoutError(p) ==
    /\ run_pc = "done"
    /\ outcome[p] = "ok"
    /\ fetched[p].status = OK
C28_InView(gid) == ViewRankOne(table, gid) # {}
C28_NoUpdateLost ==
    \A p \in ProjectIds :
        C28_FetchedWithoutError(p) =>
            \A k \in DOMAIN ProjectTasks(p) :
                source[ProjectTasks(p)[k]].completed => C28_InView(ProjectTasks(p)[k])
\* The same of a run that looks at no watermark: a full sync.
C28_FullSyncLosesNone ==
    \A p \in ProjectIds :
        C28_FetchedWithoutError(p) /\ request.full_sync =>
            \A k \in DOMAIN ProjectTasks(p) :
                source[ProjectTasks(p)[k]].completed => C28_InView(ProjectTasks(p)[k])

\* C29: the minute columns agree: in every row of completed_tasks written by
\* upsert_tasks_via_merge from records of the fetcher, actual_minutes equals
\* actual_time_raw and estimated_minutes equals estimated_time, both null
\* together; a value cleared at the source is cleared in the minutes column.
C29_Agree(r) ==
    /\ r.actual_minutes = r.actual_time_raw
    /\ r.estimated_minutes = r.estimated_time
C29_FromFetcher ==
    /\ Merged
    /\ \A r \in prev : C29_Agree(r)
    /\ \A i \in DOMAIN tasks : C29_Agree(tasks[i])
C29_MinuteColumnsAgree == C29_FromFetcher => \A r \in table : C29_Agree(r)
\* The same of the rows whose task had no row before, and of the batch rows
\* that carry both values.
C29_AgreeUnlessCleared ==
    C29_FromFetcher =>
        \A r \in table :
            \/ C29_Agree(r)
            \/ \E t \in prev :
                  /\ t.task_id = r.task_id
                  /\ \/ r.estimated_time = NULL /\ r.estimated_minutes = t.estimated_minutes
                     \/ r.actual_time_raw = NULL /\ r.actual_minutes = t.actual_minutes

\* C30: a task ingested as completed and reopened at the source is no longer
\* in the view after the next successful sync whose window covers the
\* modification; parents and subtasks, include_incomplete_subtasks or not.
C30_ProjectOf(gid) == IF gid = "T2" THEN "PB" ELSE "PA"
C30_Covered(gid) ==
    /\ C28_FetchedWithoutError(C30_ProjectOf(gid))
    /\ listed[C30_ProjectOf(gid)] # <<>>
C30_ReopenedNotInView ==
    \A gid \in SourceGids :
        ~source[gid].completed /\ C30_Covered(gid) => ViewRankOne(table, gid) = {}
\* The one case in which the reopened task leaves the view: a subtask,
\* fetched with include_incomplete_subtasks, written by the MERGE.
C30_ReopenedSubtaskRewritten ==
    /\ writer = "upsert_tasks_via_merge"
    /\ request.include_incomplete_subtasks
    /\ ~source["S1"].completed
    /\ C30_Covered("S1")
    => ViewRankOne(table, "S1") = {}

====
